---------------------------- MODULE Spec2Model ----------------------------
(***************************************************************************)
(* Model of the ftpServer firmware (Shadowtrance/ftpServer): the log ring  *)
(* of ftpUiScreen.cpp, the boot sequence and the WiFi event handler of     *)
(* main.cpp, the server toggle and the service monitor loop.               *)
(*                                                                         *)
(* The log buffer is a C string.  It is modelled as the sequence of the    *)
(* log lines it is made of; each line keeps its byte length and whether    *)
(* its last byte is the '\n' terminator, so that strlen, strchr('\n') and  *)
(* memmove are computed on the model as the code computes them on the      *)
(* bytes.  Messages are single-line texts (no embedded '\n'), as every     *)
(* caller in the repository passes.                                        *)
(***************************************************************************)
EXTENDS Integers, Sequences, FiniteSets, TLC

VARIABLES
    \* ---- ftpUiScreen.cpp
    log_textarea,       \* log_textarea != nullptr (UI constructed)
    log_buffer,         \* the text of log_buffer, line by line
    log_line_count,     \* log_line_count
    textarea_text,      \* text last pushed with lv_textarea_set_text
    \* ---- history of the log calls (not program state)
    log_seq,            \* number of addLog calls that stored a line
    since_clear,        \* lines stored since the buffer was last emptied by clearLog / creation
    last_call,          \* the latest addLog / clearLog call and the state it found
    \* ---- workload of SpecLog (not program state)
    fill_len,           \* message length used by the run's uniform phase
    tail_left,          \* free-choice calls still allowed after the uniform phase
    \* ---- widgets of ftpUiScreen.cpp
    status_text,        \* text of status_label
    spinner_hidden,     \* LV_OBJ_FLAG_HIDDEN of spinner
    ip_label_text,      \* text of ip_label
    switch_checked,     \* LV_STATE_CHECKED of server_switch
    \* ---- app_main (main.cpp)
    boot_pc,            \* where app_main stands
    screen_created,     \* screen_created
    ftp_control_callback, \* ftp_control_callback != nullptr
    wl_handle,          \* wl_handle
    sdcard,             \* sdcard != nullptr
    has_storage,        \* local has_storage
    mounts,             \* history: the mount attempts made, in order
    bits,               \* local bits: what xEventGroupWaitBits returned
    wait_timed_out,     \* history: the wait ended by its timeout
    wifi_outcome,       \* history: the branches of the outcome if-chain that ran
    console,            \* history: the ESP_LOG messages written by the outcome if-chain
    sntp_started,       \* initialize_sntp was called
    ftpServer,          \* ftpServer != nullptr
    \* ---- WiFi (main.cpp)
    wifi_started,       \* wifi_init done: event group created, handlers registered
    event_bits,         \* bits of s_wifi_event_group
    s_retry_num,        \* s_retry_num
    disc_streak,        \* history: STA_DISCONNECTED events since the last GOT_IP
    last_wifi,          \* history: the latest event handled and whether it called esp_wifi_connect
    wifi_events,        \* events delivered so far
    got_ips,            \* GOT_IP events delivered so far
    \* ---- server toggle (ftpUiScreen.cpp, main.cpp)
    ftp_operation_in_progress,  \* ftp_operation_in_progress
    toggle_pc,          \* where the render thread stands in the toggle handler
    server_enabled,     \* what ftpServer->isEnabled() returns
    start_calls,        \* history: calls of ftpServer->start()
    stop_calls,         \* history: calls of ftpServer->stop()
    last_toggle,        \* history: the latest toggle request and the state it found
    toggles,            \* toggle requests delivered so far
    \* ---- monitoring loop (main.cpp)
    last_ftp_state,     \* local last_ftp_state
    iteration,          \* local iteration
    sdcard_was_present, \* sdcard_was_present
    last_tick,          \* history: what the latest pass of the loop polled and emitted
    ticks,              \* passes of the loop so far
    changes,            \* passes that polled a state other than last_ftp_state
    \* ---- locks and threads
    lv_owner,           \* the thread that owns the render lock (lv_lock), "none" when free
    lv_depth,           \* how many times its owner has taken the (recursive) render lock
    mtx_owner,          \* the thread that owns logMutex, "none" when free
    prog,               \* per thread: the operations left of the call it is running
    local,              \* per thread: log_line of its addLog and what it found at the lock
    site,               \* history: per thread, the call site it runs or ran last
    calls,              \* calls begun so far
    \* ---- SettingsView (Source/SettingsView.cpp)
    usernameInput,      \* usernameInput != nullptr
    passwordInput,      \* passwordInput != nullptr
    portInput,          \* portInput != nullptr
    port_text,          \* the text of the portInput textarea, a sequence of characters
    currentPort,        \* currentPort
    last_handle,        \* history: the latest handleSave call, what it found and called
    settings_calls      \* calls of the view's methods so far

logVars == <<log_textarea, log_buffer, log_line_count, textarea_text,
             log_seq, since_clear, last_call>>
loadVars == <<fill_len, tail_left>>
uiVars == <<status_text, spinner_hidden, ip_label_text, switch_checked>>
bootVars == <<boot_pc, screen_created, ftp_control_callback, wl_handle, sdcard,
              has_storage, mounts, bits, wait_timed_out, wifi_outcome, console, sntp_started,
              ftpServer>>
wifiVars == <<wifi_started, event_bits, s_retry_num, disc_streak, last_wifi,
              wifi_events, got_ips>>
toggleVars == <<ftp_operation_in_progress, toggle_pc, server_enabled, start_calls,
                stop_calls, last_toggle, toggles>>
monVars == <<last_ftp_state, iteration, sdcard_was_present, last_tick, ticks, changes>>
settingsVars == <<usernameInput, passwordInput, portInput, port_text, currentPort,
                  last_handle, settings_calls>>
lockVars == <<lv_owner, lv_depth, mtx_owner, prog, local, site, calls>>
allVars == <<logVars, loadVars, settingsVars, uiVars, bootVars, wifiVars, toggleVars,
            monVars, lockVars>>

-----------------------------------------------------------------------------
(* Program constants *)

MAX_LOG_LINES == 50
MAX_LINE_LENGTH == 100
\* strlen("[HH:MM:SS] "): the "[%s] " prefix with the 8-byte strftime("%H:%M:%S") stamp
TimestampPrefixLen == 11
\* if (s_retry_num < 10)
MAX_RETRIES == 10
\* the enumerators of FtpServer::Server used by the loop; ftpServer.h is not part of
\* the sources, the values are distinct low bytes
E_FTP_STE_DISABLED == 0
E_FTP_STE_READY == 1
E_FTP_STE_CONNECTED == 2
E_FTP_STE_CONTINUE_FILE_TX == 3
E_FTP_STE_CONTINUE_FILE_RX == 4
E_FTP_STE_END_TRANSFER == 5
\* if (iteration % 10 == 0 && sdcard)
SdCheckPeriod == 10

\* sizeof(log_buffer)
LogBufferSize == MAX_LOG_LINES * MAX_LINE_LENGTH
\* size_t max_len = sizeof(log_buffer) - 1;
max_len == LogBufferSize - 1

(* Bounds of the model *)

\* addLog calls of the uniform phase of a SpecLog run
MaxFill == 52
\* free-choice addLog / clearLog calls that follow the uniform phase
MaxTail == 3

\* WiFi events delivered in a run
MaxWifiEvents == 13
\* GOT_IP events among them
MaxGotIp == 2

\* toggle requests delivered in a run
MaxToggles == 4
\* passes of the monitoring loop in a run
MaxTicks == 11
\* passes among them that poll a changed service state
MaxChanges == 2
\* calls begun by the threads in a run of the lock model
MaxCalls == 3
\* calls begun by the producers in a run of the append model
MaxAppends == 2

\* calls of the settings view's methods in a run
MaxSettingsCalls == 4

\* message lengths (bytes) offered to addLog: a short one, the longest that keeps
\* its '\n' in log_line, the shortest that loses it, and one above the byte budget
MsgLens == {10, 87, 88, 5000}

Min(a, b) == IF a < b THEN a ELSE b

\* a message handed to addLog: its text and strlen
Msg(text, len) == [text |-> text, len |-> len]

-----------------------------------------------------------------------------
(* addLog, ftpUiScreen.cpp:179-261 *)

\* snprintf(log_line, sizeof(log_line), "[%s] %s\n", timestamp, message) with the
\* truncation to sizeof(log_line) - 1 bytes made by a narrower line buffer
FormatLineNoTruncation(m, id) ==
    [id |-> id, text |-> m.text, len |-> TimestampPrefixLen + m.len + 1, nl |-> TRUE]

\* snprintf(log_line, sizeof(log_line), "[%s] %s\n", timestamp, message):
\* at most MAX_LINE_LENGTH - 1 bytes are stored; a longer line loses its tail,
\* the '\n' included
FormatLine(m, id) ==
    LET full == TimestampPrefixLen + m.len + 1
    IN  [id   |-> id,
         text |-> m.text,
         len  |-> Min(full, MAX_LINE_LENGTH - 1),
         nl   |-> full <= MAX_LINE_LENGTH - 1]

\* strlen(log_buffer)
RECURSIVE BufLen(_)
BufLen(buf) == IF buf = <<>> THEN 0 ELSE Head(buf).len + BufLen(Tail(buf))

\* strchr(log_buffer, '\n'): the index of the first line that ends with '\n', 0 for NULL
RECURSIVE FirstNewlineFrom(_, _)
FirstNewlineFrom(buf, i) ==
    IF i > Len(buf) THEN 0
    ELSE IF buf[i].nl THEN i
    ELSE FirstNewlineFrom(buf, i + 1)

first_newline(buf) == FirstNewlineFrom(buf, 1)

\* memmove(log_buffer, first_newline + 1, strlen(first_newline + 1) + 1)
RemoveThroughNewline(buf) == SubSeq(buf, first_newline(buf) + 1, Len(buf))

\* while (current_len + line_len > max_len && log_line_count > 0) { ... }
RECURSIVE ByteBudgetLoop(_, _, _)
ByteBudgetLoop(buf, cnt, line_len) ==
    IF BufLen(buf) + line_len > max_len /\ cnt > 0
    THEN IF first_newline(buf) # 0
         THEN ByteBudgetLoop(RemoveThroughNewline(buf), cnt - 1, line_len)
         ELSE [buf |-> <<>>, cnt |-> 0]
    ELSE [buf |-> buf, cnt |-> cnt]

\* the line-limit loop with the test written > instead of >=
RECURSIVE LineBudgetLoopOffByOne(_, _)
LineBudgetLoopOffByOne(buf, cnt) ==
    IF cnt > MAX_LOG_LINES
    THEN IF first_newline(buf) # 0
         THEN LineBudgetLoopOffByOne(RemoveThroughNewline(buf), cnt - 1)
         ELSE [buf |-> <<>>, cnt |-> 0]
    ELSE [buf |-> buf, cnt |-> cnt]

\* while (log_line_count >= MAX_LOG_LINES) { ... }
RECURSIVE LineBudgetLoop(_, _)
LineBudgetLoop(buf, cnt) ==
    IF cnt >= MAX_LOG_LINES
    THEN IF first_newline(buf) # 0
         THEN LineBudgetLoop(RemoveThroughNewline(buf), cnt - 1)
         ELSE [buf |-> <<>>, cnt |-> 0]
    ELSE [buf |-> buf, cnt |-> cnt]

\* the append of lines 233-249: strncpy / strncat when the line fits, else the
\* buffer is overwritten with the line cut to max_len bytes
StoreLine(buf, cnt, line) ==
    IF BufLen(buf) + line.len <= max_len
    THEN [buf |-> Append(buf, line), cnt |-> cnt + 1]
    ELSE [buf |-> << [line EXCEPT !.len = Min(line.len, max_len),
                                  !.nl  = line.nl /\ line.len <= max_len] >>,
          cnt |-> 1]

\* the critical section of addLog (lines 196-250) on a buffer and its line count
LockedAppend(buf, cnt, line) ==
    LET a == ByteBudgetLoop(buf, cnt, line.len)
        b == LineBudgetLoop(a.buf, a.cnt)
    IN  StoreLine(b.buf, b.cnt, line)

\* the log state as one value, so that a handler that logs twice composes its calls
LogState ==
    [textarea |-> log_textarea, buffer |-> log_buffer, count |-> log_line_count,
     shown |-> textarea_text, seq |-> log_seq, since |-> since_clear,
     last |-> last_call]

SetLogState(s) ==
    /\ log_textarea' = s.textarea
    /\ log_buffer' = s.buffer
    /\ log_line_count' = s.count
    /\ textarea_text' = s.shown
    /\ log_seq' = s.seq
    /\ since_clear' = s.since
    /\ last_call' = s.last

\* addLog without its first line: the call goes on when log_textarea is null
addLogNoNullCheck(s, m) ==
    LET line == FormatLine(m, s.seq + 1)
        r == LockedAppend(s.buffer, s.count, line)
    IN  [s EXCEPT !.buffer = r.buf,
                  !.count = r.cnt,
                  !.shown = r.buf,
                  !.seq = s.seq + 1,
                  !.since = s.since + 1,
                  !.last = [op |-> "addLog", msg_len |-> m.len,
                            count_before |-> s.count, buffer_before |-> s.buffer]]

\* void addLog(const char* message)
addLog(s, m) ==
    IF ~s.textarea
    THEN s                                   \* if (!log_textarea || !message) return;
    ELSE LET line == FormatLine(m, s.seq + 1)
             r == LockedAppend(s.buffer, s.count, line)
         IN  [s EXCEPT !.buffer = r.buf,
                       !.count = r.cnt,
                       !.shown = r.buf,      \* lv_textarea_set_text(log_textarea, log_buffer)
                       !.seq = s.seq + 1,
                       !.since = s.since + 1,
                       !.last = [op |-> "addLog", msg_len |-> m.len,
                                 count_before |-> s.count, buffer_before |-> s.buffer]]

\* clearLog that resets the line count and leaves the text in place
clearLogKeepsText(s) ==
    IF ~s.textarea
    THEN s
    ELSE [s EXCEPT !.count = 0,
                   !.since = 0,
                   !.last = [op |-> "clearLog", msg_len |-> 0,
                             count_before |-> s.count, buffer_before |-> s.buffer]]

\* void clearLog(void), ftpUiScreen.cpp:264-275
clearLog(s) ==
    IF ~s.textarea
    THEN s                                   \* if (!log_textarea) return;
    ELSE [s EXCEPT !.buffer = <<>>,          \* log_buffer[0] = '\0';
                   !.count = 0,              \* log_line_count = 0;
                   !.shown = <<>>,           \* lv_textarea_set_text(log_textarea, "");
                   !.since = 0,
                   !.last = [op |-> "clearLog", msg_len |-> 0,
                             count_before |-> s.count, buffer_before |-> s.buffer]]

\* the part of create_screen_ftp (ftpUiScreen.cpp:486-507) that concerns the log:
\* the textarea is created empty, log_buffer is zeroed, log_line_count = 0
create_screen_log(s) ==
    [s EXCEPT !.textarea = TRUE, !.buffer = <<>>, !.count = 0, !.shown = <<>>,
              !.since = 0]

NoCall == [op |-> "none", msg_len |-> 0, count_before |-> 0, buffer_before |-> <<>>]

\* static storage before create_screen_ftp: pointers null, buffer zeroed
LogInit ==
    /\ log_textarea = FALSE
    /\ log_buffer = <<>>
    /\ log_line_count = 0
    /\ textarea_text = <<>>
    /\ log_seq = 0
    /\ since_clear = 0
    /\ last_call = NoCall

-----------------------------------------------------------------------------
(* Widgets: update_status, update_ip_label, set_server_switch_state         *)
(* (ftpUiScreen.cpp:137-176).  The widget pointers are all set by          *)
(* create_screen_ftp, so log_textarea stands for each of them.             *)

\* the statuses for which update_status shows the spinner (lines 156-159)
ShowsSpinner(status) ==
    status \in {"Starting...", "Stopping...", "Ready", "Sending File", "Receiving File"}

\* void update_status(const char* status)
update_status(status) ==
    IF log_textarea
    THEN status_text' = status /\ spinner_hidden' = ~ShowsSpinner(status)
    ELSE UNCHANGED <<status_text, spinner_hidden>>

\* void update_ip_label(const char* ip)
update_ip_label(ip) ==
    IF log_textarea THEN ip_label_text' = ip ELSE UNCHANGED ip_label_text

\* set_server_switch_state leaving the switch as it is
set_server_switch_stateIgnored(enabled) == UNCHANGED switch_checked

\* void set_server_switch_state(bool enabled)
set_server_switch_state(enabled) ==
    IF log_textarea THEN switch_checked' = enabled ELSE UNCHANGED switch_checked

\* static void safe_log(const char* message), main.cpp:38-45
safe_log(s, m) == IF screen_created THEN addLog(s, m) ELSE s

UiInit ==
    /\ status_text = ""
    /\ spinner_hidden = TRUE
    /\ ip_label_text = ""
    /\ switch_checked = FALSE

-----------------------------------------------------------------------------
(* app_main, main.cpp:184-436: the boot sequence *)

loadIdle == fill_len = 10 /\ tail_left = 0

BootInit ==
    /\ boot_pc = "start"
    /\ screen_created = FALSE
    /\ ftp_control_callback = FALSE
    /\ wl_handle = 0
    /\ sdcard = FALSE
    /\ has_storage = FALSE
    /\ mounts = <<>>
    /\ bits = {}
    /\ wait_timed_out = FALSE
    /\ wifi_outcome = {}
    /\ console = <<>>
    /\ sntp_started = FALSE
    /\ ftpServer = FALSE

WifiInit ==
    /\ wifi_started = FALSE
    /\ event_bits = {}
    /\ s_retry_num = 0
    /\ disc_streak = 0
    /\ last_wifi = [event |-> "none", connect |-> FALSE]
    /\ wifi_events = 0
    /\ got_ips = 0

\* Phases 1-3 up to line 221: create_screen_ftp(); screen_created = true;
BootCreateScreen ==
    /\ boot_pc = "start"
    /\ SetLogState(create_screen_log(LogState))
    /\ status_text' = "Disabled"
    /\ spinner_hidden' = TRUE
    /\ ip_label_text' = "IP: Connecting..."
    /\ switch_checked' = FALSE
    /\ screen_created' = TRUE
    /\ boot_pc' = "register"
    /\ UNCHANGED <<ftp_control_callback, wl_handle, sdcard, has_storage, mounts, bits,
                   wait_timed_out, wifi_outcome, console, sntp_started, ftpServer>>

\* lines 223-230: register_ftp_control_callback(ftp_control_handler); ...
\* addLog("=== System Starting ===");
BootRegister ==
    /\ boot_pc = "register"
    /\ ftp_control_callback' = TRUE
    /\ SetLogState(addLog(LogState, Msg("=== System Starting ===", 23)))
    /\ boot_pc' = "mount_flash"
    /\ UNCHANGED <<uiVars, screen_created, wl_handle, sdcard, has_storage, mounts, bits,
                   wait_timed_out, wifi_outcome, console, sntp_started, ftpServer>>

\* wl_handle_t mountFATFS(...), filesystem.cpp:19-45: -1 when the mount failed,
\* the wear-levelling handle (0 for the first one) otherwise
mountFATFS(mounted) == IF mounted THEN 0 ELSE -1

\* the results of mountSDCARD, filesystem.cpp:47-103: ESP_OK, or the error of
\* spi_bus_initialize or of esp_vfs_fat_sdspi_mount
SdResults == {"ESP_OK", "ESP_FAIL", "ESP_ERR_TIMEOUT"}

\* has_storage made to need the flash mount as well as the card
StorageAfterSdBoth(has, ret) == has /\ ret = "ESP_OK"

\* if (mountSDCARD("/sdcard", &sdcard) == ESP_OK) has_storage = true;
StorageAfterSd(has, ret) == IF ret = "ESP_OK" THEN TRUE ELSE has

\* lines 238-245: addLog("Initializing storage..."); bool has_storage = false;
\* wl_handle = mountFATFS("data", "/data"); if (wl_handle >= 0) has_storage = true;
BootMountFlash ==
    /\ boot_pc = "mount_flash"
    /\ SetLogState(addLog(LogState, Msg("Initializing storage...", 23)))
    /\ \E mounted \in BOOLEAN :
          /\ wl_handle' = mountFATFS(mounted)
          /\ has_storage' = (mountFATFS(mounted) >= 0)
          /\ mounts' = Append(mounts, [dev |-> "flash", ok |-> mounted])
    /\ boot_pc' = "mount_sd"
    /\ UNCHANGED <<uiVars, screen_created, ftp_control_callback, sdcard, bits,
                   wait_timed_out, wifi_outcome, console, sntp_started, ftpServer>>

\* the card mount made only when the flash mount failed (a short-circuit ||)
BootMountSdShortCircuit ==
    /\ boot_pc = "mount_sd"
    /\ IF has_storage
       THEN UNCHANGED <<sdcard, has_storage, mounts>>
       ELSE \E ret \in SdResults :
               /\ sdcard' = (ret = "ESP_OK")
               /\ has_storage' = StorageAfterSd(has_storage, ret)
               /\ mounts' = Append(mounts, [dev |-> "sd", ok |-> (ret = "ESP_OK")])
    /\ boot_pc' = "check_storage"
    /\ UNCHANGED <<logVars, uiVars, screen_created, ftp_control_callback, wl_handle, bits,
                   wait_timed_out, wifi_outcome, console, sntp_started, ftpServer>>

\* line 246
BootMountSd ==
    /\ boot_pc = "mount_sd"
    /\ \E ret \in SdResults :
          /\ sdcard' = (ret = "ESP_OK")
          /\ has_storage' = StorageAfterSd(has_storage, ret)
          /\ mounts' = Append(mounts, [dev |-> "sd", ok |-> (ret = "ESP_OK")])
    /\ boot_pc' = "check_storage"
    /\ UNCHANGED <<logVars, uiVars, screen_created, ftp_control_callback, wl_handle, bits,
                   wait_timed_out, wifi_outcome, console, sntp_started, ftpServer>>

\* lines 248-260: if (!has_storage) { addLog(...); return; }
BootCheckStorage ==
    /\ boot_pc = "check_storage"
    /\ IF ~has_storage
       THEN /\ SetLogState(addLog(LogState,
                   Msg("#ff0000 [!!] No storage - cannot start FTP#", 43)))
            /\ boot_pc' = "aborted"
       ELSE /\ UNCHANGED logVars
            /\ boot_pc' = "wifi_init"
    /\ UNCHANGED <<uiVars, screen_created, ftp_control_callback, wl_handle, sdcard,
                   has_storage, mounts, bits, wait_timed_out, wifi_outcome, console, sntp_started,
                   ftpServer>>

\* lines 267-271: addLog("Connecting to WiFi..."); wifi_init();
BootWifiInit ==
    /\ boot_pc = "wifi_init"
    /\ SetLogState(addLog(LogState, Msg("Connecting to WiFi...", 21)))
    /\ wifi_started' = TRUE
    /\ boot_pc' = "wait_call"
    /\ UNCHANGED <<uiVars, screen_created, ftp_control_callback, wl_handle, sdcard,
                   has_storage, mounts, bits, wait_timed_out, wifi_outcome, console, sntp_started,
                   ftpServer, event_bits, s_retry_num, disc_streak, last_wifi,
                   wifi_events, got_ips>>

\* lines 274-278, xEventGroupWaitBits called: it returns at once when a bit is
\* already set, else the task blocks
BootWaitCall ==
    /\ boot_pc = "wait_call"
    /\ IF event_bits # {}
       THEN bits' = event_bits /\ boot_pc' = "outcome"
       ELSE bits' = bits /\ boot_pc' = "blocked"
    /\ UNCHANGED <<logVars, uiVars, screen_created, ftp_control_callback, wl_handle,
                   sdcard, has_storage, mounts, wait_timed_out, wifi_outcome, console,
                   sntp_started, ftpServer>>

\* the wait called with portMAX_DELAY: no timeout ever ends it
WaitTimeoutNone == FALSE

\* line 278, pdMS_TO_TICKS(30000): the wait is bounded
WaitTimeoutFinite == TRUE

\* the 30 s timeout of xEventGroupWaitBits expires with no bit set
BootWaitTimeout ==
    /\ boot_pc = "blocked"
    /\ WaitTimeoutFinite
    /\ bits' = event_bits
    /\ wait_timed_out' = TRUE
    /\ boot_pc' = "outcome"
    /\ UNCHANGED <<logVars, uiVars, screen_created, ftp_control_callback, wl_handle,
                   sdcard, has_storage, mounts, wifi_outcome, console, sntp_started, ftpServer>>

\* the outcome chain written as three independent ifs
WifiOutcomesIndependent(b) ==
    (IF "CONNECTED" \in b THEN {"Connected"} ELSE {})
    \cup (IF "FAIL" \in b THEN {"Failed"} ELSE {})
    \cup (IF b = {} THEN {"TimedOut"} ELSE {})

\* lines 280-295: if (bits & WIFI_CONNECTED_BIT) ... else if (bits & WIFI_FAIL_BIT)
\* ... else ...: the branches that run
WifiOutcomes(b) ==
    (IF "CONNECTED" \in b THEN {"Connected"} ELSE {})
    \cup (IF "CONNECTED" \notin b /\ "FAIL" \in b THEN {"Failed"} ELSE {})
    \cup (IF "CONNECTED" \notin b /\ "FAIL" \notin b THEN {"TimedOut"} ELSE {})

\* the if-chain with the failure and the timeout branch logging the same line
OutcomeMsgSameFailure(o) ==
    CASE o = "Connected" -> Msg("#00ff00 [OK] WiFi connected#", 28)
      [] o = "Failed"    -> Msg("#ff0000 [!!] WiFi failed#", 25)
      [] o = "TimedOut"  -> Msg("#ff0000 [!!] WiFi failed#", 25)

\* the branches that run, in the order of the chain
OutcomeList(b) ==
    (IF "Connected" \in WifiOutcomes(b) THEN <<"Connected">> ELSE <<>>)
    \o (IF "Failed" \in WifiOutcomes(b) THEN <<"Failed">> ELSE <<>>)
    \o (IF "TimedOut" \in WifiOutcomes(b) THEN <<"TimedOut">> ELSE <<>>)

\* the console message of a branch (ESP_LOGI / ESP_LOGE, lines 281, 286, 291)
OutcomeConsole(o) ==
    CASE o = "Connected" -> "Connected to WiFi SSID:%s"
      [] o = "Failed"    -> "Failed to connect to WiFi SSID:%s"
      [] o = "TimedOut"  -> "WiFi connection timeout"

\* the log line of a branch
OutcomeMsg(o) ==
    CASE o = "Connected" -> Msg("#00ff00 [OK] WiFi connected#", 28)
      [] o = "Failed"    -> Msg("#ff0000 [!!] WiFi failed#", 25)
      [] o = "TimedOut"  -> Msg("#ff0000 [!!] WiFi timeout#", 26)

LogOutcome(s, outs, o) == IF o \in outs THEN addLog(s, OutcomeMsg(o)) ELSE s

BootOutcome ==
    /\ boot_pc = "outcome"
    /\ wifi_outcome' = WifiOutcomes(bits)
    /\ console' = [i \in 1..Len(OutcomeList(bits)) |-> OutcomeConsole(OutcomeList(bits)[i])]
    /\ SetLogState(LogOutcome(LogOutcome(LogOutcome(LogState,
            WifiOutcomes(bits), "Connected"), WifiOutcomes(bits), "Failed"),
            WifiOutcomes(bits), "TimedOut"))
    /\ boot_pc' = "sntp"
    /\ UNCHANGED <<uiVars, screen_created, ftp_control_callback, wl_handle, sdcard,
                   has_storage, mounts, bits, wait_timed_out, sntp_started, ftpServer>>

\* the time-sync test written on any returned bit
SntpWantedAnyBit(b) == b # {}

\* line 302: if (bits & WIFI_CONNECTED_BIT)
SntpWanted(b) == "CONNECTED" \in b

\* lines 302-308: if (bits & WIFI_CONNECTED_BIT) { addLog("Syncing time..."); initialize_sntp(); }
BootSntp ==
    /\ boot_pc = "sntp"
    /\ IF SntpWanted(bits)
       THEN /\ SetLogState(addLog(LogState, Msg("Syncing time...", 15)))
            /\ sntp_started' = TRUE
       ELSE UNCHANGED <<logVars, sntp_started>>
    /\ boot_pc' = "server"
    /\ UNCHANGED <<uiVars, screen_created, ftp_control_callback, wl_handle, sdcard,
                   has_storage, mounts, bits, wait_timed_out, wifi_outcome, console, ftpServer>>

\* lines 317-337: ftpServer = new FtpServer::Server(); ... addLog(...); update_status("Stopped");
BootServer ==
    /\ boot_pc = "server"
    /\ ftpServer' = TRUE
    /\ SetLogState(addLog(LogState, Msg("#00ff00 [OK] FTP server ready#", 30)))
    /\ update_status("Stopped")
    /\ boot_pc' = "ready"
    /\ UNCHANGED <<ip_label_text, switch_checked, screen_created, ftp_control_callback,
                   wl_handle, sdcard, has_storage, mounts, bits, wait_timed_out,
                   wifi_outcome, console, sntp_started>>

\* lines 345-350: addLog("... System Ready ..."); the loop is entered
BootEnterLoop ==
    /\ boot_pc = "ready"
    /\ SetLogState(addLog(LogState, Msg("#00ff00 [OK] === System Ready ===#", 34)))
    /\ boot_pc' = "loop"
    /\ UNCHANGED <<uiVars, screen_created, ftp_control_callback, wl_handle, sdcard,
                   has_storage, mounts, bits, wait_timed_out, wifi_outcome, console, sntp_started,
                   ftpServer>>

-----------------------------------------------------------------------------
(* wifi_event_handler, main.cpp:68-104, run by the event task *)

\* the retry test written <= instead of <
RetryAllowedInclusive(n) == n <= MAX_RETRIES

\* if (s_retry_num < 10)
RetryAllowed(n) == n < MAX_RETRIES

\* xEventGroupSetBits with app_main's bits being the live value of the event group
\* instead of the value xEventGroupWaitBits returned
SetBitsLive(bit) ==
    /\ event_bits' = event_bits \cup {bit}
    /\ bits' = event_bits \cup {bit}
    /\ IF boot_pc = "blocked" THEN boot_pc' = "outcome" ELSE UNCHANGED boot_pc

\* xEventGroupSetBits(s_wifi_event_group, bit): the bit is set, and app_main, when
\* it is blocked in xEventGroupWaitBits, is woken with the value of the bits
SetBits(bit) ==
    /\ event_bits' = event_bits \cup {bit}
    /\ IF boot_pc = "blocked"
       THEN bits' = event_bits \cup {bit} /\ boot_pc' = "outcome"
       ELSE UNCHANGED <<bits, boot_pc>>

\* WIFI_EVENT_STA_START: esp_wifi_connect();
WifiStaStart ==
    /\ wifi_started
    /\ wifi_events < MaxWifiEvents
    /\ wifi_events' = wifi_events + 1
    /\ last_wifi' = [event |-> "STA_START", connect |-> TRUE]
    /\ UNCHANGED <<logVars, uiVars, bootVars, wifi_started, event_bits, s_retry_num,
                   disc_streak, got_ips>>

\* WIFI_EVENT_STA_DISCONNECTED
WifiDisconnected ==
    /\ wifi_started
    /\ wifi_events < MaxWifiEvents
    /\ wifi_events' = wifi_events + 1
    /\ disc_streak' = disc_streak + 1
    /\ IF RetryAllowed(s_retry_num)
       THEN /\ s_retry_num' = s_retry_num + 1             \* esp_wifi_connect(); s_retry_num++;
            /\ last_wifi' = [event |-> "STA_DISCONNECTED", connect |-> TRUE]
            /\ UNCHANGED <<logVars, event_bits, bits, boot_pc>>
       ELSE /\ SetBits("FAIL")
            /\ SetLogState(safe_log(LogState, Msg("WiFi connection failed", 22)))
            /\ last_wifi' = [event |-> "STA_DISCONNECTED", connect |-> FALSE]
            /\ UNCHANGED s_retry_num
    /\ UNCHANGED <<uiVars, screen_created, ftp_control_callback, wl_handle, sdcard,
                   has_storage, mounts, wait_timed_out, wifi_outcome, console, sntp_started,
                   ftpServer, wifi_started, got_ips>>

\* IP_EVENT_STA_GOT_IP
WifiGotIp ==
    /\ wifi_started
    /\ wifi_events < MaxWifiEvents
    /\ got_ips < MaxGotIp
    /\ wifi_events' = wifi_events + 1
    /\ got_ips' = got_ips + 1
    /\ SetLogState(safe_log(LogState, Msg("IP: 192.168.1.2", 15)))
    /\ IF screen_created
       THEN update_ip_label("IP: 192.168.1.2")
       ELSE UNCHANGED ip_label_text
    /\ s_retry_num' = 0
    /\ SetBits("CONNECTED")
    /\ disc_streak' = 0
    /\ last_wifi' = [event |-> "GOT_IP", connect |-> FALSE]
    /\ UNCHANGED <<status_text, spinner_hidden, switch_checked, screen_created,
                   ftp_control_callback, wl_handle, sdcard, has_storage, mounts,
                   wait_timed_out, wifi_outcome, console, sntp_started, ftpServer, wifi_started>>

-----------------------------------------------------------------------------
(* The server toggle: server_switch_event_cb (ftpUiScreen.cpp:286-320) and   *)
(* ftp_control_handler (main.cpp:140-182).  LVGL sends VALUE_CHANGED from   *)
(* its own task, after the switch has flipped, and ftp_control_handler runs *)
(* inside the callback: the render thread is in the handler until it       *)
(* returns, the 500 ms vTaskDelay included.                                *)

ToggleInit ==
    /\ ftp_operation_in_progress = FALSE
    /\ toggle_pc = "idle"
    /\ server_enabled = FALSE
    /\ start_calls = 0
    /\ stop_calls = 0
    /\ last_toggle = [kind |-> "none", checked |-> FALSE, switch_before |-> FALSE,
                      starts_before |-> 0, stops_before |-> 0, handler |-> FALSE,
                      server |-> FALSE]
    /\ toggles = 0

\* a rejected request that leaves the switch where the click put it
RevertSwitchMissing(is_checked) == is_checked

\* lines 297-301: if (is_checked) lv_obj_clear_state(...) else lv_obj_add_state(...)
RevertSwitch(is_checked) == IF is_checked THEN FALSE ELSE TRUE

\* lines 307-313: the log line and the status of an accepted request
ToggleMsg(is_checked) ==
    IF is_checked THEN Msg("Starting FTP server...", 22)
    ELSE Msg("Stopping FTP server...", 22)

ToggleStatus(is_checked) == IF is_checked THEN "Starting..." ELSE "Stopping..."

\* a click on server_switch: the switch flips and server_switch_event_cb runs, with
\* ftp_control_handler up to its return or to the vTaskDelay that follows start()
ToggleEvent ==
    /\ log_textarea
    /\ toggle_pc = "idle"
    /\ toggles < MaxToggles
    /\ toggles' = toggles + 1
    /\ LET is_checked == ~switch_checked
           seen == [kind |-> "none", checked |-> is_checked, switch_before |-> switch_checked,
                    starts_before |-> start_calls, stops_before |-> stop_calls,
                    handler |-> ftp_control_callback, server |-> ftpServer]
       IN  IF ftp_operation_in_progress
           THEN \* if (ftp_operation_in_progress.load()) { revert; return; }
                /\ switch_checked' = RevertSwitch(is_checked)
                /\ last_toggle' = [seen EXCEPT !.kind = "rejected"]
                /\ UNCHANGED <<logVars, status_text, spinner_hidden,
                               ftp_operation_in_progress, toggle_pc, server_enabled,
                               start_calls, stop_calls>>
           ELSE /\ switch_checked' = is_checked
                /\ last_toggle' = [seen EXCEPT !.kind = "accepted"]
                /\ IF ~ftp_control_callback
                   THEN \* if (ftp_control_callback) is false: nothing else runs
                        /\ ftp_operation_in_progress' = TRUE
                        /\ SetLogState(addLog(LogState, ToggleMsg(is_checked)))
                        /\ update_status(ToggleStatus(is_checked))
                        /\ UNCHANGED <<toggle_pc, server_enabled, start_calls, stop_calls>>
                   ELSE IF ~ftpServer
                   THEN \* if (!ftpServer) { reset_ftp_operation_flag(); return; }
                        /\ ftp_operation_in_progress' = FALSE
                        /\ SetLogState(addLog(LogState, ToggleMsg(is_checked)))
                        /\ update_status(ToggleStatus(is_checked))
                        /\ UNCHANGED <<toggle_pc, server_enabled, start_calls, stop_calls>>
                   ELSE IF is_checked
                   THEN \* ftpServer->start(); vTaskDelay(pdMS_TO_TICKS(500));
                        /\ ftp_operation_in_progress' = TRUE
                        /\ SetLogState(addLog(LogState, ToggleMsg(is_checked)))
                        /\ update_status(ToggleStatus(is_checked))
                        /\ start_calls' = start_calls + 1
                        /\ toggle_pc' = "settle"
                        /\ UNCHANGED <<server_enabled, stop_calls>>
                   ELSE \* ftpServer->stop(); addLog(...); update_status("Stopped");
                        \* reset_ftp_operation_flag();
                        /\ stop_calls' = stop_calls + 1
                        /\ server_enabled' = FALSE
                        /\ SetLogState(addLog(addLog(LogState, ToggleMsg(is_checked)),
                               Msg("#00ff00 [OK] FTP server stopped#", 32)))
                        /\ update_status("Stopped")
                        /\ ftp_operation_in_progress' = FALSE
                        /\ UNCHANGED <<toggle_pc, start_calls>>
    /\ UNCHANGED ip_label_text

\* lines 153-181, after the settle delay: the service reports whether it started
ToggleSettle ==
    /\ toggle_pc = "settle"
    /\ \E enabled \in BOOLEAN :
          /\ server_enabled' = enabled
          /\ IF enabled
             THEN /\ SetLogState(addLog(addLog(LogState,
                         Msg("#00ff00 [OK] FTP server started#", 32)),
                         Msg("User: esp32 | Port: 21", 22)))
                  /\ update_status("Ready")
                  /\ UNCHANGED switch_checked
             ELSE /\ SetLogState(addLog(LogState,
                         Msg("#ff0000 [!!] FTP failed to start#", 33)))
                  /\ update_status("Error")
                  /\ set_server_switch_state(FALSE)
    /\ ftp_operation_in_progress' = FALSE          \* reset_ftp_operation_flag();
    /\ toggle_pc' = "idle"
    /\ UNCHANGED <<ip_label_text, start_calls, stop_calls, last_toggle, toggles>>

-----------------------------------------------------------------------------
(* The monitoring loop, main.cpp:349-429: one pass per 1 s tick *)

MonitorInit ==
    /\ last_ftp_state = -1
    /\ iteration = 0
    /\ sdcard_was_present = FALSE
    /\ last_tick = [polled |-> -1, prev |-> -1, updates |-> 0, sd_lines |-> 0,
                    shown_before |-> -1]
    /\ ticks = 0
    /\ changes = 0

\* what ftpServer->getState() may return: the six states of the switch, two states
\* the switch has no case for, and state words with bits above the low byte
PolledStates ==
    {E_FTP_STE_DISABLED, E_FTP_STE_READY, E_FTP_STE_CONNECTED,
     E_FTP_STE_CONTINUE_FILE_TX, E_FTP_STE_CONTINUE_FILE_RX, E_FTP_STE_END_TRANSFER,
     6, 256 + E_FTP_STE_READY}

Update(status, text, len) == [status |-> status, msg |-> Msg(text, len)]

\* the case body of one state (lines 358-404)
CaseBody(low) ==
    CASE low = E_FTP_STE_DISABLED -> Update("Disabled", "#ffaa00 [--] FTP: Disabled#", 27)
      [] low = E_FTP_STE_READY -> Update("Ready", "#00ff00 [OK] FTP: Ready#", 24)
      [] low = E_FTP_STE_CONNECTED ->
             Update("Client Connected", "#00ff00 [**] FTP Client Connected#", 34)
      [] low = E_FTP_STE_CONTINUE_FILE_TX ->
             Update("Sending File", "#00ffff [>>] Sending file...#", 29)
      [] low = E_FTP_STE_CONTINUE_FILE_RX ->
             Update("Receiving File", "#00ffff [<<] Receiving file...#", 31)
      [] low = E_FTP_STE_END_TRANSFER ->
             Update("Ready", "#00ff00 [OK] Transfer complete#", 31)

HasCase(low) == low \in E_FTP_STE_DISABLED..E_FTP_STE_END_TRANSFER

\* the switch with the break of the Disabled case missing: it falls into Ready
SwitchUpdatesFallThrough(ftp_state) ==
    LET low == ftp_state % 256
    IN  IF low = E_FTP_STE_DISABLED
        THEN <<CaseBody(E_FTP_STE_DISABLED), CaseBody(E_FTP_STE_READY)>>
        ELSE IF HasCase(low) THEN <<CaseBody(low)>> ELSE <<>>

\* switch (ftp_state & 0xFF): the updates made, in order; every case ends in break
SwitchUpdates(ftp_state) ==
    LET low == ftp_state % 256
    IN  IF HasCase(low) THEN <<CaseBody(low)>> ELSE <<>>

\* the pass emits on every tick, changed state or not
StateChangedAlways(ftp_state, last) == TRUE

\* if (ftp_state != last_ftp_state)
StateChanged(ftp_state, last) == ftp_state # last

RECURSIVE LogUpdates(_, _)
LogUpdates(s, ups) ==
    IF ups = <<>> THEN s ELSE LogUpdates(addLog(s, Head(ups).msg), Tail(ups))

\* the SD card check logging its line without storing the new liveness
SdCheckNoFlip(card_ok) ==
    IF ~card_ok /\ sdcard_was_present
    THEN [lines |-> <<Msg("#ff8800 [!!] SD Card removed!#", 30)>>,
          present |-> sdcard_was_present]
    ELSE IF card_ok /\ ~sdcard_was_present
    THEN [lines |-> <<Msg("#00ff00 [OK] SD Card accessible#", 32)>>,
          present |-> sdcard_was_present]
    ELSE [lines |-> <<>>, present |-> sdcard_was_present]

\* the SD card check of lines 409-425 for a status of the card: the line it logs
\* (as a sequence) and the new sdcard_was_present
SdCheck(card_ok) ==
    IF ~card_ok /\ sdcard_was_present
    THEN [lines |-> <<Msg("#ff8800 [!!] SD Card removed!#", 30)>>, present |-> FALSE]
    ELSE IF card_ok /\ ~sdcard_was_present
    THEN [lines |-> <<Msg("#00ff00 [OK] SD Card accessible#", 32)>>, present |-> TRUE]
    ELSE [lines |-> <<>>, present |-> sdcard_was_present]

RECURSIVE LogLines(_, _)
LogLines(s, lines) ==
    IF lines = <<>> THEN s ELSE LogLines(addLog(s, Head(lines)), Tail(lines))

\* one pass of while (1), lines 352-429
MonitorTick ==
    /\ boot_pc = "loop"
    /\ ticks < MaxTicks
    /\ ticks' = ticks + 1
    /\ \E ftp_state \in PolledStates, card_ok \in BOOLEAN :
          LET changed == StateChanged(ftp_state, last_ftp_state)
              ups == IF changed THEN SwitchUpdates(ftp_state) ELSE <<>>
              check == iteration % SdCheckPeriod = 0 /\ sdcard
              sd == IF check THEN SdCheck(card_ok)
                    ELSE [lines |-> <<>>, present |-> sdcard_was_present]
          IN  /\ (ftp_state # last_ftp_state) => changes < MaxChanges
              /\ changes' = IF ftp_state # last_ftp_state THEN changes + 1 ELSE changes
              /\ (~check) => card_ok
              /\ SetLogState(LogLines(LogUpdates(LogState, ups), sd.lines))
              /\ IF ups # <<>>
                 THEN update_status(ups[Len(ups)].status)
                 ELSE UNCHANGED <<status_text, spinner_hidden>>
              /\ last_ftp_state' = IF changed THEN ftp_state ELSE last_ftp_state
              /\ sdcard_was_present' = sd.present
              /\ last_tick' = [polled |-> ftp_state, prev |-> last_ftp_state,
                               updates |-> Len(ups), sd_lines |-> Len(sd.lines),
                               \* the coarse state of the update emitted last before this pass
                               shown_before |-> IF last_tick.updates > 0
                                                THEN last_tick.polled % 256
                                                ELSE last_tick.shown_before]
    \* iteration++ (uint32_t: it wraps after 2^32 passes, far beyond MaxTicks)
    /\ iteration' = iteration + 1
    /\ UNCHANGED <<ip_label_text, switch_checked>>

-----------------------------------------------------------------------------
(* Frames: what the steps of one context leave alone *)

-----------------------------------------------------------------------------
(* Threads and locks.  Four tasks call into ftpUiScreen.cpp: app_main (the  *)
(* boot and the monitoring loop), the event task that runs                 *)
(* wifi_event_handler, the worker of the FTP service that runs the log     *)
(* callback of main.cpp:327-331, and the LVGL task that runs the widget    *)
(* event callbacks.  A call is the sequence of the lock operations and     *)
(* buffer / widget accesses its code makes, run one operation at a time.   *)
(* lv_lock is LVGL's recursive mutex: every caller in main.cpp takes it    *)
(* around addLog, which takes it again.  The LVGL task dispatches the      *)
(* widget events from lv_timer_handler, inside lv_lock: the event          *)
(* callbacks call update_status, whose contract (ftpUiScreen.cpp:148) is   *)
(* that the caller holds lv_lock, without taking it.                       *)

Threads == {"main", "event", "worker", "render"}

NoLocal == [line |-> [id |-> 0, text |-> "", len |-> 0, nl |-> FALSE],
            msg_len |-> 0, count_before |-> 0, buffer_before |-> <<>>]

LockInit ==
    /\ lv_owner = "none"
    /\ lv_depth = 0
    /\ mtx_owner = "none"
    /\ prog = [t \in Threads |-> <<>>]
    /\ local = [t \in Threads |-> NoLocal]
    /\ site = [t \in Threads |-> "none"]
    /\ calls = 0

\* an operation of a call and its argument
Op(o) == [op |-> o, arg |-> Msg("", 0)]
OpWith(o, m) == [op |-> o, arg |-> m]

\* addLog with lv_textarea_set_text moved inside the lock_guard block
AddLogBodyPushInsideGuard ==
    << Op("mtx_lock"), Op("byte_loop"), Op("line_loop"), Op("store"),
       Op("lv_lock"), Op("push_begin"), Op("push_end"), Op("lv_unlock"),
       Op("mtx_unlock") >>

\* the operations of addLog that follow its first lines (a call that finds
\* log_textarea null returns at once and skips them), ftpUiScreen.cpp:195-260:
\* { lock_guard(logMutex); the two loops; the append; }
\* lv_lock(); lv_textarea_set_text(log_textarea, log_buffer); scroll; lv_unlock();
AddLogBody ==
    << Op("mtx_lock"), Op("byte_loop"), Op("line_loop"), Op("store"), Op("mtx_unlock"),
       Op("lv_lock"), Op("push_begin"), Op("push_end"), Op("lv_unlock") >>

\* void addLog(const char* message), lines 179-261
AddLogOps(m) == <<OpWith("format", m)>> \o AddLogBody

\* void clearLog(void), lines 264-275
ClearLogOps ==
    << Op("mtx_lock"), Op("clear_buf"), Op("mtx_unlock"),
       Op("lv_lock"), Op("push_empty"), Op("lv_unlock") >>

\* lv_lock(); ...; lv_unlock(); around the calls of a call site
Locked(ops) == <<Op("lv_lock")>> \o ops \o <<Op("lv_unlock")>>

\* the log callback calling addLog with no lv_lock around it
ServiceLogOpsNoRenderLock(m) == AddLogOps(m)

\* main.cpp:327-331, the log callback of the service: lv_lock(); addLog(msg); lv_unlock();
ServiceLogOps(m) == Locked(AddLogOps(m))

\* static void safe_log(const char* message), main.cpp:38-45, screen_created set
SafeLogOps(m) == Locked(AddLogOps(m))

\* the GOT_IP branch calling update_ip_label with no lv_lock around it
GotIpOpsLabelUnlocked(ip) ==
    SafeLogOps(Msg(ip, 15)) \o <<OpWith("set_ip", Msg(ip, 0))>>

\* the GOT_IP branch publishing the connected bit before it logs, writes the label
\* and resets the counter
GotIpHandlerOpsPublishFirst(ip) ==
    <<Op("set_connected")>>
    \o SafeLogOps(Msg(ip, 15)) \o Locked(<<OpWith("set_ip", Msg(ip, 0))>>)
    \o <<Op("reset_retry")>>

\* main.cpp:92-99: safe_log(ip_msg); lv_lock(); update_ip_label(ip_msg); lv_unlock();
GotIpOps(ip) ==
    SafeLogOps(Msg(ip, 15)) \o Locked(<<OpWith("set_ip", Msg(ip, 0))>>)

\* main.cpp:85-103, the whole GOT_IP branch: ...; s_retry_num = 0;
\* xEventGroupSetBits(s_wifi_event_group, WIFI_CONNECTED_BIT);
GotIpHandlerOps(ip) == GotIpOps(ip) \o <<Op("reset_retry"), Op("set_connected")>>

\* main.cpp:360-363 and the other cases: lv_lock(); addLog(..); update_status(..); lv_unlock();
LogAndStatusOps(m, status) ==
    Locked(AddLogOps(m) \o <<OpWith("set_status", Msg(status, 0))>>)

\* main.cpp:149-171, what ftp_control_handler runs after the settle delay
SettleOps(enabled) ==
    IF enabled
    THEN LogAndStatusOps(Msg("#00ff00 [OK] FTP server started#", 32), "Ready")
         \o Locked(AddLogOps(Msg("User: esp32 | Port: 21", 22)))
    ELSE Locked(AddLogOps(Msg("#ff0000 [!!] FTP failed to start#", 33))
                \o <<OpWith("set_status", Msg("Error", 0)), Op("set_switch_off")>>)

\* static void ftp_control_handler(bool start), main.cpp:140-182, ftpServer set
HandlerOps(start) ==
    (IF start
     THEN <<Op("start"), Op("delay")>>
     ELSE <<Op("stop")>>
          \o LogAndStatusOps(Msg("#00ff00 [OK] FTP server stopped#", 32), "Stopped"))
    \o <<Op("reset_flag")>>

\* server_switch_event_cb calling the control callback before it announces the request
SwitchCallbackOpsHandlerFirst(is_checked) ==
    <<Op("set_flag")>>
    \o HandlerOps(is_checked)
    \o AddLogOps(ToggleMsg(is_checked))
    \o <<OpWith("set_status", Msg(ToggleStatus(is_checked), 0))>>

\* server_switch_event_cb, ftpUiScreen.cpp:305-318, for an accepted request with
\* the handler registered
SwitchCallbackOps(is_checked) ==
    <<Op("set_flag")>>
    \o AddLogOps(ToggleMsg(is_checked))
    \o <<OpWith("set_status", Msg(ToggleStatus(is_checked), 0))>>
    \o HandlerOps(is_checked)

\* clear_button_event_cb, ftpUiScreen.cpp:278-284
ClearCallbackOps == ClearLogOps \o AddLogOps(Msg("#00ff00 [OK] Log cleared#", 25))

\* the widget event callbacks run with the render lock not taken by the LVGL task
DispatchUnlocked(ops) == ops

\* lv_timer_handler: lv_lock(); the input is read and the event callback run; lv_unlock();
Dispatch(ops) == <<Op("lv_lock")>> \o ops \o <<Op("lv_unlock")>>

\* the thread is about to run operation o
At(t, o) == prog[t] # <<>> /\ Head(prog[t]).op = o

Pop(t) == prog' = [prog EXCEPT ![t] = Tail(@)]

\* what no operation of a call changes
opFrame == <<loadVars, settingsVars, bootVars, wifiVars, monVars, site, calls>>
lockState == <<lv_owner, lv_depth, mtx_owner>>

\* the render lock as a plain mutex: its holder cannot take it again
LvAvailableNonRecursive(t) == lv_owner = "none"

\* lv_lock() can be taken by t: LVGL's lock is a recursive mutex, free or owned by
\* the caller
LvAvailable(t) == lv_owner \in {"none", t}

\* lv_lock(): the recursive render lock; the caller waits while another thread owns it
LvLock(t) ==
    /\ At(t, "lv_lock")
    /\ LvAvailable(t)
    /\ lv_owner' = t
    /\ lv_depth' = lv_depth + 1
    /\ Pop(t)
    /\ UNCHANGED <<logVars, uiVars, toggleVars, mtx_owner, local, opFrame>>

\* lv_unlock()
LvUnlock(t) ==
    /\ At(t, "lv_unlock")
    /\ lv_owner = t
    /\ lv_depth' = lv_depth - 1
    /\ lv_owner' = IF lv_depth = 1 THEN "none" ELSE t
    /\ Pop(t)
    /\ UNCHANGED <<logVars, uiVars, toggleVars, mtx_owner, local, opFrame>>

\* addLog, lines 180-193: if (!log_textarea || !message) return; ... snprintf(log_line, ...)
Format(t) ==
    /\ At(t, "format")
    /\ IF log_textarea
       THEN /\ local' = [local EXCEPT ![t].line = FormatLine(Head(prog[t]).arg, 0),
                                      ![t].msg_len = Head(prog[t]).arg.len]
            /\ Pop(t)
       ELSE /\ prog' = [prog EXCEPT ![t] = SubSeq(@, 2 + Len(AddLogBody), Len(@))]
            /\ UNCHANGED local
    /\ UNCHANGED <<logVars, uiVars, toggleVars, lockState, opFrame>>

\* std::lock_guard<std::mutex> lock(logMutex): the caller waits while it is owned
MtxLock(t) ==
    /\ At(t, "mtx_lock")
    /\ mtx_owner = "none"
    /\ mtx_owner' = t
    /\ local' = [local EXCEPT ![t].count_before = log_line_count,
                              ![t].buffer_before = log_buffer]
    /\ Pop(t)
    /\ UNCHANGED <<logVars, uiVars, toggleVars, lv_owner, lv_depth, opFrame>>

\* the end of the lock_guard block
MtxUnlock(t) ==
    /\ At(t, "mtx_unlock")
    /\ mtx_owner = t
    /\ mtx_owner' = "none"
    /\ Pop(t)
    /\ UNCHANGED <<logVars, uiVars, toggleVars, lv_owner, lv_depth, local, opFrame>>

\* the byte-budget loop with log_line_count-- left out of its body
ByteLoopNoDecrement(t) ==
    /\ At(t, "byte_loop")
    /\ IF BufLen(log_buffer) + local[t].line.len > max_len /\ log_line_count > 0
       THEN IF first_newline(log_buffer) # 0
            THEN /\ log_buffer' = RemoveThroughNewline(log_buffer)
                 /\ UNCHANGED <<log_line_count, prog>>
            ELSE /\ log_buffer' = <<>>
                 /\ log_line_count' = 0
                 /\ Pop(t)
       ELSE /\ UNCHANGED <<log_buffer, log_line_count>>
            /\ Pop(t)
    /\ UNCHANGED <<log_textarea, textarea_text, log_seq, since_clear, last_call,
                   uiVars, toggleVars, lockState, local, opFrame>>

\* one test of while (current_len + line_len > max_len && log_line_count > 0) and,
\* when it holds, one pass of the body (lines 203-217)
ByteLoop(t) ==
    /\ At(t, "byte_loop")
    /\ IF BufLen(log_buffer) + local[t].line.len > max_len /\ log_line_count > 0
       THEN IF first_newline(log_buffer) # 0
            THEN /\ log_buffer' = RemoveThroughNewline(log_buffer)
                 /\ log_line_count' = log_line_count - 1
                 /\ UNCHANGED prog
            ELSE /\ log_buffer' = <<>>
                 /\ log_line_count' = 0
                 /\ Pop(t)                                   \* break;
       ELSE /\ UNCHANGED <<log_buffer, log_line_count>>
            /\ Pop(t)
    /\ UNCHANGED <<log_textarea, textarea_text, log_seq, since_clear, last_call,
                   uiVars, toggleVars, lockState, local, opFrame>>

\* one test of while (log_line_count >= MAX_LOG_LINES) and, when it holds, one pass
\* of the body (lines 220-230)
LineLoop(t) ==
    /\ At(t, "line_loop")
    /\ IF log_line_count >= MAX_LOG_LINES
       THEN IF first_newline(log_buffer) # 0
            THEN /\ log_buffer' = RemoveThroughNewline(log_buffer)
                 /\ log_line_count' = log_line_count - 1
                 /\ UNCHANGED prog
            ELSE /\ log_buffer' = <<>>
                 /\ log_line_count' = 0
                 /\ Pop(t)                                   \* break;
       ELSE /\ UNCHANGED <<log_buffer, log_line_count>>
            /\ Pop(t)
    /\ UNCHANGED <<log_textarea, textarea_text, log_seq, since_clear, last_call,
                   uiVars, toggleVars, lockState, local, opFrame>>

\* lines 233-249: the append
Store(t) ==
    /\ At(t, "store")
    /\ LET r == StoreLine(log_buffer, log_line_count,
                          [local[t].line EXCEPT !.id = log_seq + 1])
       IN  /\ log_buffer' = r.buf
           /\ log_line_count' = r.cnt
    /\ log_seq' = log_seq + 1
    /\ since_clear' = since_clear + 1
    /\ last_call' = [op |-> "addLog", msg_len |-> local[t].msg_len,
                     count_before |-> local[t].count_before,
                     buffer_before |-> local[t].buffer_before]
    /\ Pop(t)
    /\ UNCHANGED <<log_textarea, textarea_text, uiVars, toggleVars, lockState, local,
                   opFrame>>

\* lv_textarea_set_text(log_textarea, log_buffer) is entered: it reads log_buffer
\* until it returns
PushBegin(t) ==
    /\ At(t, "push_begin")
    /\ Pop(t)
    /\ UNCHANGED <<logVars, uiVars, toggleVars, lockState, local, opFrame>>

\* lv_textarea_set_text returns; lv_obj_scroll_to_y(log_textarea, LV_COORD_MAX, LV_ANIM_ON);
PushEnd(t) ==
    /\ At(t, "push_end")
    /\ textarea_text' = log_buffer
    /\ Pop(t)
    /\ UNCHANGED <<log_textarea, log_buffer, log_line_count, log_seq, since_clear,
                   last_call, uiVars, toggleVars, lockState, local, opFrame>>

\* clearLog, lines 269-270: log_buffer[0] = '\0'; log_line_count = 0;
ClearBuf(t) ==
    /\ At(t, "clear_buf")
    /\ log_buffer' = <<>>
    /\ log_line_count' = 0
    /\ since_clear' = 0
    /\ last_call' = [op |-> "clearLog", msg_len |-> 0,
                     count_before |-> local[t].count_before,
                     buffer_before |-> local[t].buffer_before]
    /\ Pop(t)
    /\ UNCHANGED <<log_textarea, textarea_text, log_seq, uiVars, toggleVars, lockState,
                   local, opFrame>>

\* clearLog, line 273: lv_textarea_set_text(log_textarea, "");
PushEmpty(t) ==
    /\ At(t, "push_empty")
    /\ textarea_text' = <<>>
    /\ Pop(t)
    /\ UNCHANGED <<log_textarea, log_buffer, log_line_count, log_seq, since_clear,
                   last_call, uiVars, toggleVars, lockState, local, opFrame>>

\* update_status(status)
SetStatus(t) ==
    /\ At(t, "set_status")
    /\ update_status(Head(prog[t]).arg.text)
    /\ Pop(t)
    /\ UNCHANGED <<logVars, ip_label_text, switch_checked, toggleVars, lockState, local,
                   opFrame>>

\* update_ip_label(ip)
SetIp(t) ==
    /\ At(t, "set_ip")
    /\ update_ip_label(Head(prog[t]).arg.text)
    /\ Pop(t)
    /\ UNCHANGED <<logVars, status_text, spinner_hidden, switch_checked, toggleVars,
                   lockState, local, opFrame>>

\* set_server_switch_state(false)
SetSwitchOff(t) ==
    /\ At(t, "set_switch_off")
    /\ set_server_switch_state(FALSE)
    /\ Pop(t)
    /\ UNCHANGED <<logVars, status_text, spinner_hidden, ip_label_text, toggleVars,
                   lockState, local, opFrame>>

\* ftp_operation_in_progress.store(true), ftpUiScreen.cpp:305
SetFlag(t) ==
    /\ At(t, "set_flag")
    /\ ftp_operation_in_progress' = TRUE
    /\ Pop(t)
    /\ UNCHANGED <<logVars, uiVars, toggle_pc, server_enabled, start_calls, stop_calls,
                   last_toggle, toggles, lockState, local, opFrame>>

\* reset_ftp_operation_flag(), main.cpp:181
ResetFlag(t) ==
    /\ At(t, "reset_flag")
    /\ ftp_operation_in_progress' = FALSE
    /\ Pop(t)
    /\ UNCHANGED <<logVars, uiVars, toggle_pc, server_enabled, start_calls, stop_calls,
                   last_toggle, toggles, lockState, local, opFrame>>

\* ftpServer->start(), main.cpp:148
ServiceStart(t) ==
    /\ At(t, "start")
    /\ start_calls' = start_calls + 1
    /\ Pop(t)
    /\ UNCHANGED <<logVars, uiVars, ftp_operation_in_progress, toggle_pc, server_enabled,
                   stop_calls, last_toggle, toggles, lockState, local, opFrame>>

\* ftpServer->stop(), main.cpp:174
ServiceStop(t) ==
    /\ At(t, "stop")
    /\ stop_calls' = stop_calls + 1
    /\ server_enabled' = FALSE
    /\ Pop(t)
    /\ UNCHANGED <<logVars, uiVars, ftp_operation_in_progress, toggle_pc, start_calls,
                   last_toggle, toggles, lockState, local, opFrame>>

\* vTaskDelay(pdMS_TO_TICKS(500)) elapses and ftpServer->isEnabled() is read,
\* main.cpp:151-153
SettleDelay(t) ==
    /\ At(t, "delay")
    /\ \E enabled \in BOOLEAN :
          /\ server_enabled' = enabled
          /\ prog' = [prog EXCEPT ![t] = SettleOps(enabled) \o Tail(@)]
    /\ UNCHANGED <<logVars, uiVars, ftp_operation_in_progress, toggle_pc, start_calls,
                   stop_calls, last_toggle, toggles, lockState, local, opFrame>>

\* s_retry_num = 0;, main.cpp:101: the streak of disconnects ends
ResetRetry(t) ==
    /\ At(t, "reset_retry")
    /\ s_retry_num' = 0
    /\ disc_streak' = 0
    /\ Pop(t)
    /\ UNCHANGED <<logVars, loadVars, settingsVars, uiVars, bootVars, toggleVars, monVars, lockState,
                   local, site, calls, wifi_started, event_bits, last_wifi, wifi_events,
                   got_ips>>

\* xEventGroupSetBits(s_wifi_event_group, WIFI_CONNECTED_BIT);, main.cpp:102
SetConnected(t) ==
    /\ At(t, "set_connected")
    /\ SetBits("CONNECTED")
    /\ last_wifi' = [event |-> "GOT_IP", connect |-> FALSE]
    /\ Pop(t)
    /\ UNCHANGED <<logVars, loadVars, settingsVars, uiVars, toggleVars, monVars, lockState, local, site,
                   calls, screen_created, ftp_control_callback, wl_handle, sdcard,
                   has_storage, mounts, wait_timed_out, wifi_outcome, console, sntp_started,
                   ftpServer, wifi_started, s_retry_num, disc_streak, wifi_events,
                   got_ips>>

-----------------------------------------------------------------------------
(* SettingsView (Source/SettingsView.cpp): the view that edits the user,    *)
(* the password and the port.  The text of the port textarea is a sequence *)
(* of characters; atoi and the "%d" of snprintf convert between it and the  *)
(* integer port.  onSave and onCancel are members declared in              *)
(* SettingsView.h: a call finds each of them registered or empty.          *)

DigitChars == <<"0", "1", "2", "3", "4", "5", "6", "7", "8", "9">>

IsDigit(c) == \E d \in 1..10 : DigitChars[d] = c

\* c - '0'
DigitValue(c) == (CHOOSE d \in 1..10 : DigitChars[d] = c) - 1

\* the digits of atoi: the value of the leading decimal digits of s after acc
RECURSIVE AtoiFrom(_, _)
AtoiFrom(s, acc) ==
    IF s = <<>> \/ ~IsDigit(Head(s)) THEN acc
    ELSE AtoiFrom(Tail(s), acc * 10 + DigitValue(Head(s)))

\* int atoi(const char*): an optional '-' and the leading decimal digits; 0 when
\* there is none (at most 7 characters reach it, so the value fits an int)
atoi(s) ==
    IF s # <<>> /\ Head(s) = "-" THEN 0 - AtoiFrom(Tail(s), 0) ELSE AtoiFrom(s, 0)

\* the decimal digits of n >= 0, most significant first
RECURSIVE DecimalChars(_)
DecimalChars(n) ==
    IF n < 10 THEN <<DigitChars[n + 1]>>
    ELSE Append(DecimalChars(n \div 10), DigitChars[(n % 10) + 1])

\* snprintf(portStr, sizeof(portStr), "%d", port) with char portStr[8]: at most 7
\* characters are kept (lines 98-99)
PortString(port) ==
    LET full == IF port < 0 THEN <<"-">> \o DecimalChars(0 - port) ELSE DecimalChars(port)
    IN  SubSeq(full, 1, Min(Len(full), 7))

\* the range test with its lower limit included
PortInRangeFromZero(p) == p >= 0 /\ p <= 65535

\* line 38: if (p > 0 && p <= 65535)
PortInRange(p) == p > 0 /\ p <= 65535

\* lines 35-41: the port handed to onSave for a text of the port field
SavedPort(text, current) ==
    IF Len(text) > 0 /\ PortInRange(atoi(text)) THEN atoi(text) ELSE current

NoHandle == [kind |-> "none", widgets |-> FALSE, text |-> <<>>, current |-> 0,
             on_save |-> FALSE, on_cancel |-> FALSE,
             save_called |-> FALSE, save_port |-> 0, cancel_called |-> FALSE]

\* void SettingsView::handleSave(), lines 23-46: what the call does, for the
\* callbacks it finds registered
handleSave(on_save, on_cancel) ==
    LET widgets == usernameInput /\ passwordInput /\ portInput
        seen == [NoHandle EXCEPT !.kind = "save", !.widgets = widgets, !.text = port_text,
                                 !.current = currentPort, !.on_save = on_save,
                                 !.on_cancel = on_cancel]
    IN  IF ~widgets
        THEN \* if (onCancel) onCancel(); return;
             [seen EXCEPT !.cancel_called = on_cancel]
        ELSE \* if (onSave) onSave(newUser, newPass, port);
             [seen EXCEPT !.save_called = on_save,
                          !.save_port = IF on_save THEN SavedPort(port_text, currentPort)
                                        ELSE 0]

\* a view not started yet: no widget, no call
SettingsInit ==
    /\ usernameInput = FALSE
    /\ passwordInput = FALSE
    /\ portInput = FALSE
    /\ port_text = <<>>
    /\ currentPort = 0
    /\ last_handle = NoHandle
    /\ settings_calls = 0

\* a step of app_main that does not touch the WiFi state
mainFrame == <<loadVars, settingsVars, wifiVars, toggleVars, monVars, lockVars>>
\* wifi_init and the event handler
wifiFrame == <<loadVars, settingsVars, toggleVars, monVars, lockVars>>
\* the toggle handler
toggleFrame == <<loadVars, settingsVars, bootVars, wifiVars, monVars, lockVars>>
\* a pass of the monitoring loop
monFrame == <<loadVars, settingsVars, bootVars, wifiVars, toggleVars, lockVars>>
\* the calls of SpecLog
restVars == <<uiVars, bootVars, wifiVars, toggleVars, monVars, lockVars>>
RestInit ==
    UiInit /\ BootInit /\ WifiInit /\ ToggleInit /\ MonitorInit /\ LockInit /\ SettingsInit


-----------------------------------------------------------------------------
(* SpecBoot: app_main up to the monitoring loop, with the WiFi events *)

InitBoot ==
    /\ LogInit
    /\ loadIdle
    /\ UiInit
    /\ BootInit
    /\ WifiInit
    /\ ToggleInit
    /\ MonitorInit
    /\ LockInit
    /\ SettingsInit

NextBoot ==
    \/ (BootCreateScreen /\ UNCHANGED mainFrame)
    \/ (BootRegister /\ UNCHANGED mainFrame)
    \/ (BootMountFlash /\ UNCHANGED mainFrame)
    \/ (BootMountSd /\ UNCHANGED mainFrame)
    \/ (BootCheckStorage /\ UNCHANGED mainFrame)
    \/ (BootWifiInit /\ UNCHANGED wifiFrame)
    \/ (BootWaitCall /\ UNCHANGED mainFrame)
    \/ (BootWaitTimeout /\ UNCHANGED mainFrame)
    \/ (BootOutcome /\ UNCHANGED mainFrame)
    \/ (BootSntp /\ UNCHANGED mainFrame)
    \/ (BootServer /\ UNCHANGED mainFrame)
    \/ (BootEnterLoop /\ UNCHANGED mainFrame)
    \/ (WifiStaStart /\ UNCHANGED wifiFrame)
    \/ (WifiDisconnected /\ UNCHANGED wifiFrame)
    \/ (WifiGotIp /\ UNCHANGED wifiFrame)

SpecBoot == InitBoot /\ [][NextBoot]_allVars

\* the steps of app_main: the main task is scheduled again and again (every wait
\* it makes is a vTaskDelay or the bounded xEventGroupWaitBits)
BootProgress ==
    \/ (BootCreateScreen /\ UNCHANGED mainFrame)
    \/ (BootRegister /\ UNCHANGED mainFrame)
    \/ (BootMountFlash /\ UNCHANGED mainFrame)
    \/ (BootMountSd /\ UNCHANGED mainFrame)
    \/ (BootCheckStorage /\ UNCHANGED mainFrame)
    \/ (BootWifiInit /\ UNCHANGED wifiFrame)
    \/ (BootWaitCall /\ UNCHANGED mainFrame)
    \/ (BootWaitTimeout /\ UNCHANGED mainFrame)
    \/ (BootOutcome /\ UNCHANGED mainFrame)
    \/ (BootSntp /\ UNCHANGED mainFrame)
    \/ (BootServer /\ UNCHANGED mainFrame)
    \/ (BootEnterLoop /\ UNCHANGED mainFrame)

\* ENABLED <<BootProgress>>_allVars as a state predicate: app_main has a next
\* step until it has returned or entered the loop
BootCanStep ==
    /\ boot_pc \notin {"loop", "aborted"}
    /\ boot_pc = "blocked" => WaitTimeoutFinite

\* WF_allVars(BootProgress), with ENABLED written as BootCanStep
MainTaskFair == []<>(~BootCanStep) \/ []<><<BootProgress>>_allVars

\* SpecBoot with the main task scheduled fairly and the timeout of the wait
\* firing when the task stays blocked; the WiFi events stay free
SpecBootLive ==
    /\ InitBoot
    /\ [][NextBoot]_allVars
    /\ WF_allVars(BootWaitTimeout /\ UNCHANGED mainFrame)
    /\ MainTaskFair

-----------------------------------------------------------------------------
(* SpecToggle: the toggle requests of the render thread beside app_main (the *)
(* connectivity wait ends by its timeout: no WiFi event is delivered)       *)

NextToggle ==
    \/ (BootCreateScreen /\ UNCHANGED mainFrame)
    \/ (BootRegister /\ UNCHANGED mainFrame)
    \/ (BootMountFlash /\ UNCHANGED mainFrame)
    \/ (BootMountSd /\ UNCHANGED mainFrame)
    \/ (BootCheckStorage /\ UNCHANGED mainFrame)
    \/ (BootWifiInit /\ UNCHANGED wifiFrame)
    \/ (BootWaitCall /\ UNCHANGED mainFrame)
    \/ (BootWaitTimeout /\ UNCHANGED mainFrame)
    \/ (BootOutcome /\ UNCHANGED mainFrame)
    \/ (BootSntp /\ UNCHANGED mainFrame)
    \/ (BootServer /\ UNCHANGED mainFrame)
    \/ (BootEnterLoop /\ UNCHANGED mainFrame)
    \/ (ToggleEvent /\ UNCHANGED toggleFrame)
    \/ (ToggleSettle /\ UNCHANGED toggleFrame)

SpecToggle == InitBoot /\ [][NextToggle]_allVars

-----------------------------------------------------------------------------
(* SpecMonitor: app_main through the boot and into the monitoring loop      *)

NextMonitor ==
    \/ (BootCreateScreen /\ UNCHANGED mainFrame)
    \/ (BootRegister /\ UNCHANGED mainFrame)
    \/ (BootMountFlash /\ UNCHANGED mainFrame)
    \/ (BootMountSd /\ UNCHANGED mainFrame)
    \/ (BootCheckStorage /\ UNCHANGED mainFrame)
    \/ (BootWifiInit /\ UNCHANGED wifiFrame)
    \/ (BootWaitCall /\ UNCHANGED mainFrame)
    \/ (BootWaitTimeout /\ UNCHANGED mainFrame)
    \/ (BootOutcome /\ UNCHANGED mainFrame)
    \/ (BootSntp /\ UNCHANGED mainFrame)
    \/ (BootServer /\ UNCHANGED mainFrame)
    \/ (BootEnterLoop /\ UNCHANGED mainFrame)
    \/ (MonitorTick /\ UNCHANGED monFrame)

SpecMonitor == InitBoot /\ [][NextMonitor]_allVars

-----------------------------------------------------------------------------
(* SpecLog: the log ring under a sequence of addLog and clearLog calls.     *)
(* Every mutation of log_buffer and log_line_count is made inside a        *)
(* logMutex critical section, so the buffer goes through the states of a   *)
(* serial order of the calls.  A run makes up to MaxFill calls with one    *)
(* message length and then up to MaxTail calls chosen freely.              *)

LogCreateScreen ==
    /\ ~log_textarea
    /\ SetLogState(create_screen_log(LogState))
    /\ UNCHANGED <<loadVars, settingsVars, restVars>>

\* a call of the uniform phase
LogAddFill ==
    /\ tail_left = MaxTail
    /\ log_seq < MaxFill
    /\ SetLogState(addLog(LogState, Msg("fill", fill_len)))
    /\ UNCHANGED <<loadVars, settingsVars, restVars>>

\* a freely chosen call
LogAddFree ==
    /\ tail_left > 0
    /\ \E len \in MsgLens : SetLogState(addLog(LogState, Msg("free", len)))
    /\ tail_left' = tail_left - 1
    /\ UNCHANGED <<fill_len, settingsVars, restVars>>

LogClear ==
    /\ tail_left > 0
    /\ SetLogState(clearLog(LogState))
    /\ tail_left' = tail_left - 1
    /\ UNCHANGED <<fill_len, settingsVars, restVars>>

InitLog ==
    /\ LogInit
    /\ fill_len \in MsgLens
    /\ tail_left = MaxTail
    /\ RestInit

NextLog == LogCreateScreen \/ LogAddFill \/ LogAddFree \/ LogClear

SpecLog == InitLog /\ [][NextLog]_allVars

-----------------------------------------------------------------------------
(* SpecLocks: app_main boots (no WiFi event is delivered) and enters the    *)
(* loop; from then on the four tasks make calls, interleaved operation by  *)
(* operation.                                                               *)

\* thread t begins the call of site s
BeginCall(t, s, ops) ==
    /\ prog[t] = <<>>
    /\ calls < MaxCalls
    /\ prog' = [prog EXCEPT ![t] = ops]
    /\ site' = [site EXCEPT ![t] = s]
    /\ calls' = calls + 1
    /\ UNCHANGED <<lv_owner, lv_depth, mtx_owner, local>>

threadsFrame == <<logVars, loadVars, settingsVars, bootVars, wifiVars, monVars>>

\* a pass of the monitoring loop that found a changed state, main.cpp:366-372
MonitorBegin ==
    /\ boot_pc = "loop"
    /\ BeginCall("main", "monitor", LogAndStatusOps(Msg("#00ff00 [OK] FTP: Ready#", 24), "Ready"))
    /\ UNCHANGED <<threadsFrame, uiVars, toggleVars>>

\* wifi_event_handler, main.cpp:79-82: safe_log("WiFi connection failed");
WifiFailedBegin ==
    /\ boot_pc = "loop"
    /\ BeginCall("event", "wifi_failed", SafeLogOps(Msg("WiFi connection failed", 22)))
    /\ UNCHANGED <<threadsFrame, uiVars, toggleVars>>

\* wifi_event_handler, main.cpp:85-99
GotIpBegin ==
    /\ boot_pc = "loop"
    /\ BeginCall("event", "got_ip", GotIpOps("IP: 192.168.1.2"))
    /\ UNCHANGED <<threadsFrame, uiVars, toggleVars>>

\* the service logs a line through the callback of main.cpp:327-331
ServiceLogBegin ==
    /\ boot_pc = "loop"
    /\ BeginCall("worker", "service_log", ServiceLogOps(Msg("150 Opening data connection", 27)))
    /\ UNCHANGED <<threadsFrame, uiVars, toggleVars>>

\* a click on the Clear button: LVGL runs clear_button_event_cb
ClearButtonBegin ==
    /\ boot_pc = "loop"
    /\ BeginCall("render", "clear_button", Dispatch(ClearCallbackOps))
    /\ UNCHANGED <<threadsFrame, uiVars, toggleVars>>

\* the switch events delivered by a second task beside the LVGL task
ToggleThreadsTwo == {"render", "event"}

\* the tasks that deliver the events of the switch: the one LVGL task that
\* lvgl_port_init starts (displayConfig.cpp:320-321), which reads the touch input
ToggleThreads == {"render"}

\* a click on the switch while no operation is in flight: the switch flips and LVGL
\* runs server_switch_event_cb
SwitchBegin ==
    /\ boot_pc = "loop"
    /\ ~ftp_operation_in_progress
    /\ \E t \in ToggleThreads :
          BeginCall(t, "switch", Dispatch(SwitchCallbackOps(~switch_checked)))
    /\ switch_checked' = ~switch_checked
    /\ UNCHANGED <<threadsFrame, status_text, spinner_hidden, ip_label_text, toggleVars>>

InitLocks == InitBoot

NextLocks ==
    \/ (BootCreateScreen /\ UNCHANGED mainFrame)
    \/ (BootRegister /\ UNCHANGED mainFrame)
    \/ (BootMountFlash /\ UNCHANGED mainFrame)
    \/ (BootMountSd /\ UNCHANGED mainFrame)
    \/ (BootCheckStorage /\ UNCHANGED mainFrame)
    \/ (BootWifiInit /\ UNCHANGED wifiFrame)
    \/ (BootWaitCall /\ UNCHANGED mainFrame)
    \/ (BootWaitTimeout /\ UNCHANGED mainFrame)
    \/ (BootOutcome /\ UNCHANGED mainFrame)
    \/ (BootSntp /\ UNCHANGED mainFrame)
    \/ (BootServer /\ UNCHANGED mainFrame)
    \/ (BootEnterLoop /\ UNCHANGED mainFrame)
    \/ MonitorBegin
    \/ WifiFailedBegin
    \/ GotIpBegin
    \/ ServiceLogBegin
    \/ ClearButtonBegin
    \/ SwitchBegin
    \/ (\E t \in Threads : LvLock(t))
    \/ (\E t \in Threads : LvUnlock(t))
    \/ (\E t \in Threads : Format(t))
    \/ (\E t \in Threads : MtxLock(t))
    \/ (\E t \in Threads : MtxUnlock(t))
    \/ (\E t \in Threads : ByteLoop(t))
    \/ (\E t \in Threads : LineLoop(t))
    \/ (\E t \in Threads : Store(t))
    \/ (\E t \in Threads : PushBegin(t))
    \/ (\E t \in Threads : PushEnd(t))
    \/ (\E t \in Threads : ClearBuf(t))
    \/ (\E t \in Threads : PushEmpty(t))
    \/ (\E t \in Threads : SetStatus(t))
    \/ (\E t \in Threads : SetIp(t))
    \/ (\E t \in Threads : SetSwitchOff(t))
    \/ (\E t \in Threads : SetFlag(t))
    \/ (\E t \in Threads : ResetFlag(t))
    \/ (\E t \in Threads : ServiceStart(t))
    \/ (\E t \in Threads : ServiceStop(t))
    \/ (\E t \in Threads : SettleDelay(t))

SpecLocks == InitLocks /\ [][NextLocks]_allVars

-----------------------------------------------------------------------------
(* SpecPreUi: log and status calls made at any time, before and after       *)
(* create_screen_ftp has built the widgets                                  *)

\* what a free call leaves alone
callFrame == <<loadVars, settingsVars, bootVars, wifiVars, toggleVars, monVars,
               lv_owner, lv_depth, mtx_owner, prog, local, site>>

CountCall == calls < MaxCalls /\ calls' = calls + 1

CallAddLog ==
    /\ CountCall
    /\ \E len \in MsgLens : SetLogState(addLog(LogState, Msg("call", len)))
    /\ UNCHANGED <<uiVars, callFrame>>

CallClearLog ==
    /\ CountCall
    /\ SetLogState(clearLog(LogState))
    /\ UNCHANGED <<uiVars, callFrame>>

CallSafeLog ==
    /\ CountCall
    /\ SetLogState(safe_log(LogState, Msg("safe", 10)))
    /\ UNCHANGED <<uiVars, callFrame>>

CallUpdateStatus ==
    /\ CountCall
    /\ \E status \in {"Ready", "Error"} : update_status(status)
    /\ UNCHANGED <<logVars, ip_label_text, switch_checked, callFrame>>

CallUpdateIpLabel ==
    /\ CountCall
    /\ update_ip_label("IP: 192.168.1.2")
    /\ UNCHANGED <<logVars, status_text, spinner_hidden, switch_checked, callFrame>>

CallSetSwitch ==
    /\ CountCall
    /\ \E enabled \in BOOLEAN : set_server_switch_state(enabled)
    /\ UNCHANGED <<logVars, status_text, spinner_hidden, ip_label_text, callFrame>>

\* create_screen_ftp(); screen_created = true; (main.cpp:220-221)
CallCreateScreen ==
    /\ boot_pc = "start"
    /\ BootCreateScreen
    /\ UNCHANGED mainFrame

InitPreUi == InitBoot

NextPreUi ==
    \/ CallAddLog
    \/ CallClearLog
    \/ CallSafeLog
    \/ CallUpdateStatus
    \/ CallUpdateIpLabel
    \/ CallSetSwitch
    \/ CallCreateScreen

SpecPreUi == InitPreUi /\ [][NextPreUi]_allVars

-----------------------------------------------------------------------------
(* SpecAppend: producers appending to a log that a serial run of calls has  *)
(* filled to any level, up to and beyond both budgets.  The event task     *)
(* (safe_log) and the worker of the service (its log callback) then make   *)
(* their calls operation by operation, competing for lv_lock and logMutex. *)

Producers == {"event", "worker"}

appendFrame == <<loadVars, settingsVars, uiVars, bootVars, wifiVars, toggleVars, monVars>>

\* a call of the filling phase, made while no other call is in progress
AppendFill ==
    /\ calls = 0
    /\ log_textarea
    /\ log_seq < MaxFill
    /\ SetLogState(addLog(LogState, Msg("fill", fill_len)))
    /\ UNCHANGED <<loadVars, settingsVars, restVars>>

\* message lengths of the event task: a short line and one cut by snprintf, which
\* is stored without its '\n'
EventLens == {10, 5000}

\* wifi_event_handler logs through safe_log, main.cpp:38-45
AppendSafeLogBegin ==
    /\ calls < MaxAppends
    /\ \E len \in EventLens : BeginCall("event", "safe_log", SafeLogOps(Msg("event", len)))
    /\ UNCHANGED <<logVars, appendFrame>>

\* the service logs through its callback, main.cpp:327-331
AppendServiceLogBegin ==
    /\ calls < MaxAppends
    /\ BeginCall("worker", "service_log", ServiceLogOps(Msg("worker", fill_len)))
    /\ UNCHANGED <<logVars, appendFrame>>

InitAppend == InitLog

NextAppend ==
    \/ LogCreateScreen
    \/ AppendFill
    \/ AppendSafeLogBegin
    \/ AppendServiceLogBegin
    \/ (\E t \in Producers : LvLock(t))
    \/ (\E t \in Producers : LvUnlock(t))
    \/ (\E t \in Producers : Format(t))
    \/ (\E t \in Producers : MtxLock(t))
    \/ (\E t \in Producers : MtxUnlock(t))
    \/ (\E t \in Producers : ByteLoop(t))
    \/ (\E t \in Producers : LineLoop(t))
    \/ (\E t \in Producers : Store(t))
    \/ (\E t \in Producers : PushBegin(t))
    \/ (\E t \in Producers : PushEnd(t))

\* the next operation of the call of thread t
ThreadStep(t) ==
    \/ LvLock(t) \/ LvUnlock(t) \/ Format(t) \/ MtxLock(t) \/ MtxUnlock(t)
    \/ ByteLoop(t) \/ LineLoop(t) \/ Store(t) \/ PushBegin(t) \/ PushEnd(t)

SpecAppend == InitAppend /\ [][NextAppend]_allVars

\* fair scheduling of the tasks and of the two locks: a task that can run again and
\* again (a waiter whose lock is free again and again) runs (gets the lock)
SpecAppendFair ==
    /\ SpecAppend
    /\ \A t \in Producers : SF_allVars(ThreadStep(t))

-----------------------------------------------------------------------------
(* SpecGotIp: the boot with the GOT_IP branch of wifi_event_handler run      *)
(* operation by operation on the event task, beside app_main.  A step of   *)
(* app_main that logs takes lv_lock and logMutex and so waits while the     *)
(* event task holds one of them; the event task runs one handler at a time. *)

LocksFree == lv_owner = "none" /\ mtx_owner = "none"

EventIdle == prog["event"] = <<>>

\* IP_EVENT_STA_GOT_IP is delivered: the event task enters the branch of main.cpp:85
GotIpEventBegin ==
    /\ wifi_started
    /\ EventIdle
    /\ wifi_events < MaxWifiEvents
    /\ got_ips < MaxGotIp
    /\ wifi_events' = wifi_events + 1
    /\ got_ips' = got_ips + 1
    /\ prog' = [prog EXCEPT !["event"] = GotIpHandlerOps("IP: 192.168.1.2")]
    /\ site' = [site EXCEPT !["event"] = "got_ip"]
    /\ UNCHANGED <<logVars, loadVars, settingsVars, uiVars, bootVars, toggleVars, monVars, lockState,
                   local, calls, wifi_started, event_bits, s_retry_num, disc_streak,
                   last_wifi>>

InitGotIp == InitBoot

NextGotIp ==
    \/ (BootCreateScreen /\ UNCHANGED mainFrame)
    \/ (BootRegister /\ UNCHANGED mainFrame)
    \/ (BootMountFlash /\ UNCHANGED mainFrame)
    \/ (BootMountSd /\ UNCHANGED mainFrame)
    \/ (BootCheckStorage /\ UNCHANGED mainFrame)
    \/ (BootWifiInit /\ UNCHANGED wifiFrame)
    \/ (BootWaitCall /\ UNCHANGED mainFrame)
    \/ (BootWaitTimeout /\ UNCHANGED mainFrame)
    \/ (LocksFree /\ BootOutcome /\ UNCHANGED mainFrame)
    \/ (LocksFree /\ BootSntp /\ UNCHANGED mainFrame)
    \/ (LocksFree /\ BootServer /\ UNCHANGED mainFrame)
    \/ (LocksFree /\ BootEnterLoop /\ UNCHANGED mainFrame)
    \/ (EventIdle /\ WifiStaStart /\ UNCHANGED wifiFrame)
    \/ (EventIdle /\ WifiDisconnected /\ UNCHANGED wifiFrame)
    \/ GotIpEventBegin
    \/ LvLock("event")
    \/ LvUnlock("event")
    \/ Format("event")
    \/ MtxLock("event")
    \/ MtxUnlock("event")
    \/ ByteLoop("event")
    \/ LineLoop("event")
    \/ Store("event")
    \/ PushBegin("event")
    \/ PushEnd("event")
    \/ SetIp("event")
    \/ ResetRetry("event")
    \/ SetConnected("event")

SpecGotIp == InitGotIp /\ [][NextGotIp]_allVars

-----------------------------------------------------------------------------
(* Properties of the log ring (SpecLog) *)

\* C1: after any sequence of addLog and clearLog calls the text of log_buffer is at
\* most sizeof(log_buffer) - 1 = 4999 bytes long and log_line_count is at most
\* MAX_LOG_LINES = 50.
C1_LogWithinBudget ==
    /\ BufLen(log_buffer) <= max_len
    /\ log_line_count <= MAX_LOG_LINES
    /\ log_line_count >= 0

\* a full buffer from which an append has already evicted a line
C1_Witness ==
    /\ log_line_count = MAX_LOG_LINES
    /\ log_seq > MAX_LOG_LINES
    /\ BufLen(log_buffer) + MAX_LINE_LENGTH > max_len

\* C2: after n appends with no clear in between, the buffer holds exactly the last
\* min(n, 50) appended lines, in append order.
C2_FifoLastLines ==
    log_textarea =>
        LET n == Min(since_clear, MAX_LOG_LINES)
        IN  /\ Len(log_buffer) = n
            /\ \A i \in 1..n : log_buffer[i].id = log_seq - n + i

C4_ClearLeavesEmpty ==
    last_call.op = "clearLog" =>
        /\ log_buffer = <<>>
        /\ log_line_count = 0
        /\ textarea_text = <<>>

\* clearLog called on a full buffer
C4_Witness ==
    /\ last_call.op = "clearLog"
    /\ last_call.count_before = MAX_LOG_LINES
    /\ last_call.buffer_before # <<>>

-----------------------------------------------------------------------------
(* Properties of the WiFi connect state machine and of the boot (SpecBoot) *)

\* C5 as claimed: after 10 or more consecutive STA_DISCONNECTED events with no
\* GOT_IP in between the failure bit is published, and a later disconnect event
\* issues no connect attempt.
C5_FailedAfterTenDisconnects ==
    /\ disc_streak >= MAX_RETRIES => "FAIL" \in event_bits
    /\ (disc_streak > MAX_RETRIES /\ last_wifi.event = "STA_DISCONNECTED")
           => ~last_wifi.connect

\* C5 as amended: the failure bit is published by the 11th consecutive
\* STA_DISCONNECTED event (the first ten are answered by a reconnect attempt each);
\* from the 11th on, a disconnect event of the streak issues no connect attempt.
C5_FailedAfterElevenDisconnects ==
    /\ disc_streak > MAX_RETRIES => ("FAIL" \in event_bits /\ s_retry_num = MAX_RETRIES)
    /\ (disc_streak > MAX_RETRIES /\ last_wifi.event = "STA_DISCONNECTED")
           => ~last_wifi.connect
    /\ (disc_streak <= MAX_RETRIES /\ last_wifi.event = "STA_DISCONNECTED")
           => (last_wifi.connect /\ s_retry_num = disc_streak)

\* a disconnect event that comes after the one that published the failure
C5_Witness ==
    /\ disc_streak >= MAX_RETRIES + 2
    /\ last_wifi.event = "STA_DISCONNECTED"
    /\ "FAIL" \in event_bits

OutcomeTexts ==
    {OutcomeMsg("Connected").text, OutcomeMsg("Failed").text, OutcomeMsg("TimedOut").text}

\* C6: once the connectivity wait has returned and its result is evaluated, exactly
\* one of Connected, Failed, TimedOut is the outcome, and exactly one outcome line
\* is logged: Connected when the connected bit is in the returned bits (also beside
\* the failure bit), Failed when only the failure bit is, TimedOut when none is.
C6_ExactlyOneOutcome ==
    boot_pc \in {"sntp", "server", "ready", "loop"} =>
        /\ Cardinality(wifi_outcome) = 1
        /\ Cardinality({i \in DOMAIN log_buffer : log_buffer[i].text \in OutcomeTexts}) = 1
        /\ \A i \in DOMAIN log_buffer :
              log_buffer[i].text \in OutcomeTexts =>
                  \E o \in wifi_outcome : log_buffer[i].text = OutcomeMsg(o).text
        /\ ("CONNECTED" \in bits) => wifi_outcome = {"Connected"}
        /\ (bits = {"FAIL"}) => wifi_outcome = {"Failed"}
        /\ (bits = {}) => (wifi_outcome = {"TimedOut"} /\ wait_timed_out)

\* the wait returned both bits, set before the outcome was evaluated
C6_Witness ==
    /\ boot_pc = "sntp"
    /\ bits = {"CONNECTED", "FAIL"}

\* C10: storage is available when either mount succeeded; boot goes on then, and
\* aborts when both failed, with WiFi never initialised, the service never
\* instantiated and each mount attempted once.
C10_StorageEitherMount ==
    LET decided == boot_pc \notin {"start", "register", "mount_flash", "mount_sd",
                                   "check_storage"}
        anyOk == \E i \in DOMAIN mounts : mounts[i].ok
    IN  /\ Len(mounts) <= 2
        /\ decided => (Len(mounts) = 2 /\ ((boot_pc = "aborted") <=> ~anyOk))
        /\ decided => (has_storage <=> anyOk)
        /\ boot_pc = "aborted" =>
              (~wifi_started /\ ~ftpServer /\ event_bits = {} /\ wifi_outcome = {}
               /\ ~sntp_started)

\* the flash mount failed, the card mount succeeded, and the service was instantiated
C10_Witness ==
    /\ ftpServer
    /\ Len(mounts) = 2
    /\ ~mounts[1].ok
    /\ mounts[2].ok

-----------------------------------------------------------------------------
(* Properties of the server toggle (SpecToggle) *)

\* C7 as claimed: a toggle request that arrives while the in-flight flag is set
\* invokes neither start() nor stop() and leaves the switch where it was before the
\* request; a toggle ON while not in flight invokes start() exactly once.
C7_ToggleGuard ==
    /\ last_toggle.kind = "rejected" =>
          /\ start_calls = last_toggle.starts_before
          /\ stop_calls = last_toggle.stops_before
          /\ switch_checked = last_toggle.switch_before
    /\ (last_toggle.kind = "accepted" /\ last_toggle.checked) =>
          start_calls = last_toggle.starts_before + 1

\* C7 as amended: a toggle request that arrives while the in-flight flag is set
\* invokes neither start() nor stop() and leaves the switch where it was before the
\* request; a toggle ON while not in flight invokes start() exactly once when the
\* control handler is registered and the service instance exists, and not at all
\* otherwise; it never invokes stop().
C7_ToggleGuardWithService ==
    /\ last_toggle.kind = "rejected" =>
          /\ start_calls = last_toggle.starts_before
          /\ stop_calls = last_toggle.stops_before
          /\ switch_checked = last_toggle.switch_before
    /\ (last_toggle.kind = "accepted" /\ last_toggle.checked) =>
          /\ stop_calls = last_toggle.stops_before
          /\ start_calls = IF last_toggle.handler /\ last_toggle.server
                           THEN last_toggle.starts_before + 1
                           ELSE last_toggle.starts_before
    /\ toggle_pc = "settle" =>
          (ftp_operation_in_progress /\ last_toggle.kind = "accepted"
           /\ last_toggle.checked)

\* a request rejected while the handler is registered and the service exists
C7_Witness ==
    /\ last_toggle.kind = "rejected"
    /\ last_toggle.handler
    /\ last_toggle.server
    /\ ftp_operation_in_progress

\* C8: every accepted toggle returns the controller to Idle: once the toggle
\* handler has returned, the in-flight flag is clear.
C8_InFlightCleared ==
    toggle_pc = "idle" => ~ftp_operation_in_progress

-----------------------------------------------------------------------------
(* Properties of the monitoring loop (SpecMonitor) *)

\* C9: a pass of the loop emits at most one status+log update, and none when the
\* polled state equals the state of the previous pass.
C9_AtMostOneUpdatePerTick ==
    /\ last_tick.updates <= 1
    /\ last_tick.polled = last_tick.prev => last_tick.updates = 0
    /\ (ticks > 0 /\ last_tick.polled = last_tick.prev) =>
          last_ftp_state = last_tick.polled

\* a pass that polled the state already shown, one the switch has a case for
C9_Witness ==
    /\ ticks >= 2
    /\ last_tick.polled = last_tick.prev
    /\ HasCase(last_tick.polled % 256)
    /\ last_tick.updates = 0

-----------------------------------------------------------------------------
(* Properties of the boot after the storage phase (SpecBootLive, SpecBoot) *)

C12_SntpOnlyWhenConnected ==
    /\ sntp_started => (wifi_outcome = {"Connected"} /\ "CONNECTED" \in bits)
    /\ boot_pc \in {"server", "ready", "loop"} =>
          (sntp_started <=> wifi_outcome = {"Connected"})
    /\ sntp_started =>
          \E i \in DOMAIN log_buffer : log_buffer[i].text = "Syncing time..."

\* the time-sync phase passed without a start after Failed, the connected bit set
\* only after the wait had returned
C12_Witness ==
    /\ boot_pc \in {"server", "ready", "loop"}
    /\ wifi_outcome = {"Failed"}
    /\ "CONNECTED" \in event_bits
    /\ ~sntp_started

-----------------------------------------------------------------------------
(* Properties of the locking (SpecLocks) *)

\* the thread is inside lv_textarea_set_text(log_textarea, log_buffer)
Reading(t) == At(t, "push_end")

\* the thread is about to run an operation that reads and writes log_buffer
Mutating(t) ==
    At(t, "byte_loop") \/ At(t, "line_loop") \/ At(t, "store") \/ At(t, "clear_buf")

\* C13: no thread reads or writes the log buffer while another thread is mutating
\* it: the buffer is mutated only by the owner of logMutex, and while a thread owns
\* logMutex no other thread is inside the read that pushes the text to the display.
C13_NoAccessDuringMutation ==
    /\ \A t \in Threads : Mutating(t) => mtx_owner = t
    /\ \A t \in Threads : \A u \in Threads \ {t} :
          mtx_owner = t => (~Reading(u) /\ ~Mutating(u))

\* a thread pushes the text while another thread waits to start its addLog
C13_Witness ==
    \E t \in Threads : \E u \in Threads \ {t} :
        /\ Reading(t)
        /\ At(u, "lv_lock")
        /\ lv_owner = t
        /\ Len(prog[u]) > 1
        /\ prog[u][2].op = "format"

\* C14: no thread owns the buffer lock (logMutex) and the render lock (lv_lock) at
\* the same time, the render lock taken by the callers of addLog included.
C14_LocksNeverHeldTogether ==
    \A t \in Threads : ~(mtx_owner = t /\ lv_owner = t)

\* C15: the thread that invokes the service's start() or stop(), or waits the
\* settle delay, holds neither the render lock nor the buffer lock.
C15_NoLockAcrossServiceCalls ==
    \A t \in Threads :
        (At(t, "start") \/ At(t, "stop") \/ At(t, "delay")) =>
            (lv_owner # t /\ mtx_owner # t)

\* C16: every call of update_status, update_ip_label or set_server_switch_state is
\* made by a thread that holds the render lock.
C16_SettersUnderRenderLock ==
    \A t \in Threads :
        (At(t, "set_status") \/ At(t, "set_ip") \/ At(t, "set_switch_off")) =>
            (lv_owner = t /\ lv_depth >= 1)

\* the switch event callback about to call update_status, under the lock of the
\* dispatch alone
C16_Witness ==
    /\ At("render", "set_status")
    /\ site["render"] = "switch"
    /\ lv_owner = "render"
    /\ lv_depth = 1

\* C20: addLog and clearLog never request the render lock while they hold the
\* buffer lock: the owner of logMutex is only ever about to run a buffer operation
\* or the release of logMutex.
C20_BufferLockReleasedFirst ==
    \A t \in Threads :
        /\ At(t, "lv_lock") => mtx_owner # t
        /\ mtx_owner = t => (Mutating(t) \/ At(t, "mtx_unlock"))

\* addLog has released logMutex and is about to take the render lock for the push
C20_Witness ==
    \E t \in Threads :
        /\ At(t, "lv_lock")
        /\ Len(prog[t]) > 1
        /\ prog[t][2].op = "push_begin"
        /\ mtx_owner = "none"
        /\ log_buffer # <<>>
        /\ log_buffer[Len(log_buffer)].text = local[t].line.text

-----------------------------------------------------------------------------
(* Properties of the calls made before the UI exists (SpecPreUi) *)

\* C17: until create_screen_ftp has built the widgets, no log or status call
\* changes the display or the log buffer.
C17_NothingBeforeUi ==
    ~log_textarea =>
        /\ log_buffer = <<>>
        /\ log_line_count = 0
        /\ log_seq = 0
        /\ last_call = NoCall
        /\ textarea_text = <<>>
        /\ status_text = ""
        /\ spinner_hidden
        /\ ip_label_text = ""
        /\ ~switch_checked

\* calls were made and the UI is not built yet
C17_Witness ==
    /\ ~log_textarea
    /\ calls >= 2

-----------------------------------------------------------------------------
(* Properties of the failure reports (SpecToggle) *)

\* the text of the last line of the log, "" for an empty log
LastLogText == IF log_buffer = <<>> THEN "" ELSE log_buffer[Len(log_buffer)].text

\* the log holds a line with this text
Logged(text) == \E i \in DOMAIN log_buffer : log_buffer[i].text = text

\* C18: every user-visible failure produces a coloured log line or a change of the
\* status label: no storage at boot, WiFi failed, WiFi timed out, a start the
\* service rejected, and a toggle requested while the service instance is missing
\* (after the request was announced with "Starting..." / "Stopping...", the
\* failure either logs a line or moves the status label on).
C18_FailuresSurface ==
    /\ boot_pc = "aborted" => Logged("#ff0000 [!!] No storage - cannot start FTP#")
    /\ wifi_outcome = {"Failed"} => Logged("#ff0000 [!!] WiFi failed#")
    /\ wifi_outcome = {"TimedOut"} => Logged("#ff0000 [!!] WiFi timeout#")
    /\ (toggle_pc = "idle" /\ last_toggle.kind = "accepted" /\ last_toggle.checked
        /\ last_toggle.handler /\ last_toggle.server /\ ~server_enabled
        /\ start_calls = last_toggle.starts_before + 1) =>
          (Logged("#ff0000 [!!] FTP failed to start#") \/ status_text = "Error")
    /\ (toggle_pc = "idle" /\ last_toggle.kind = "accepted"
        /\ last_toggle.handler /\ ~last_toggle.server
        /\ LastLogText = ToggleMsg(last_toggle.checked).text) =>
          status_text # ToggleStatus(last_toggle.checked)

-----------------------------------------------------------------------------
(* Properties of the termination of addLog (SpecAppendFair) *)

\* a pass of one of the two eviction loops that does not leave the loop
LoopPass(t) == (ByteLoop(t) \/ LineLoop(t)) /\ prog'[t] = prog[t]

\* C19: a producer never blocks on a full buffer.  Every pass of an eviction loop
\* that stays in the loop lowers log_line_count, which is never negative, so a
\* loop makes at most log_line_count passes; the append that follows stores the
\* caller's line as the last line of the buffer, whatever the buffer held; and
\* under fair scheduling of the tasks and locks every call that began returns.
C19_AppendTerminates ==
    /\ [][\A t \in Producers :
            /\ LoopPass(t) => (log_line_count' < log_line_count /\ log_line_count' >= 0)
            /\ Store(t) =>
                 /\ log_buffer' # <<>>
                 /\ log_buffer'[Len(log_buffer')].id = log_seq'
                 /\ log_buffer'[Len(log_buffer')].text = local[t].line.text
                 /\ log_buffer'[Len(log_buffer')].len = local[t].line.len]_allVars
    /\ \A t \in Producers : (prog[t] # <<>>) ~> (prog[t] = <<>>)

\* a call that found the buffer at its line budget, and too full for its line, returned
\* after evicting and storing its line, with its line on the display
C19_Witness ==
    /\ calls > 0
    /\ \A t \in Producers : prog[t] = <<>>
    /\ \E t \in Producers : /\ local[t].count_before = MAX_LOG_LINES
                            /\ BufLen(local[t].buffer_before) + local[t].line.len > max_len
                            /\ log_buffer # <<>>
                            /\ log_buffer[Len(log_buffer)].text = local[t].line.text
    /\ log_line_count = MAX_LOG_LINES
    /\ textarea_text = log_buffer

-----------------------------------------------------------------------------
(* Properties of the settle step of a start request (SpecToggle) *)

\* C21: when the settle delay of an accepted start request has elapsed and the
\* handler returns: if isEnabled() is true the status is Ready, the line
\* "FTP server started" and then the configuration summary line are logged and the
\* switch stays on; if isEnabled() is false the error line is logged, the status
\* is Error and the switch is set back to off.
C21_SettleOutcome ==
    [][(toggle_pc = "settle" /\ toggle_pc' = "idle") =>
          IF server_enabled'
          THEN /\ status_text' = "Ready"
               /\ switch_checked /\ switch_checked'
               /\ log_seq' = log_seq + 2
               /\ log_buffer'[Len(log_buffer')].text = "User: esp32 | Port: 21"
               /\ log_buffer'[Len(log_buffer') - 1].text = "#00ff00 [OK] FTP server started#"
          ELSE /\ status_text' = "Error"
               /\ ~switch_checked'
               /\ log_seq' = log_seq + 1
               /\ log_buffer'[Len(log_buffer')].text = "#ff0000 [!!] FTP failed to start#"
      ]_allVars

\* a start request whose service did not come up: the handler has returned, the
\* switch is back off
C21_Witness ==
    /\ toggle_pc = "idle"
    /\ last_toggle.kind = "accepted"
    /\ last_toggle.checked
    /\ start_calls = last_toggle.starts_before + 1
    /\ ~server_enabled
    /\ status_text = "Error"
    /\ ~switch_checked

-----------------------------------------------------------------------------
(* Properties of the order of an accepted toggle (SpecLocks) *)

\* C22: for an accepted toggle the in-flight flag is set first, then the status
\* Starting... or Stopping... is published, then start() or stop() is invoked: the
\* thread about to publish a status from the switch callback finds the flag set, and
\* the thread about to invoke start() (stop()) finds the flag set and the status
\* label reading Starting... (Stopping...).
C22_FlagThenStatusThenService ==
    \A t \in Threads :
        /\ (site[t] = "switch" /\ At(t, "set_status")) => ftp_operation_in_progress
        /\ At(t, "start") =>
              (ftp_operation_in_progress /\ status_text = ToggleStatus(TRUE))
        /\ At(t, "stop") =>
              (ftp_operation_in_progress /\ status_text = ToggleStatus(FALSE))

\* start() has been invoked for an accepted request and its settle delay is running
C22_Witness ==
    /\ At("render", "delay")
    /\ site["render"] = "switch"
    /\ start_calls = 1
    /\ ftp_operation_in_progress
    /\ status_text = "Starting..."

-----------------------------------------------------------------------------
(* Properties of the state poll (SpecMonitor) *)

\* C23 as claimed: a pass of the loop that polls a state other than last_ftp_state
\* emits exactly one status+log update for it and stores it in last_ftp_state,
\* whatever value was polled.
C23_OneUpdatePerChange ==
    (ticks > 0 /\ last_tick.polled # last_tick.prev) =>
        (last_tick.updates = 1 /\ last_ftp_state = last_tick.polled)

\* C23 as amended: a pass of the loop that polls a state other than last_ftp_state
\* stores it in last_ftp_state; it emits exactly one status+log update, the one of
\* the mapping table, when the low byte of the polled value is one of the six mapped
\* states, and no update at all when it is not.
C23_OneUpdatePerMappedChange ==
    (ticks > 0 /\ last_tick.polled # last_tick.prev) =>
        /\ last_ftp_state = last_tick.polled
        /\ IF HasCase(last_tick.polled % 256)
           THEN /\ last_tick.updates = 1
                /\ status_text = CaseBody(last_tick.polled % 256).status
                /\ Logged(CaseBody(last_tick.polled % 256).msg.text)
           ELSE last_tick.updates = 0

\* a pass polled a state the switch has no case for, after a mapped one
C23_Witness ==
    /\ ticks >= 2
    /\ last_tick.polled = 6
    /\ HasCase(last_tick.prev)
    /\ last_tick.updates = 0
    /\ last_ftp_state = 6

-----------------------------------------------------------------------------
(* Properties of the retry counter (SpecBoot) *)

\* C24: s_retry_num stays within 0..10, and within one streak of disconnect events
\* with no GOT_IP it counts the reconnect attempts of the streak, at most 10: a
\* disconnect event that finds the counter below 10 increments it, reissues connect
\* and publishes no bit; one that finds it at 10 publishes the failure bit, issues
\* no connect and leaves the counter at 10.
C24_RetryCounterBounded ==
    /\ [](/\ s_retry_num \in 0..MAX_RETRIES
          /\ s_retry_num = Min(disc_streak, MAX_RETRIES))
    /\ [][(wifi_events' = wifi_events + 1 /\ last_wifi'.event = "STA_DISCONNECTED") =>
             IF s_retry_num < MAX_RETRIES
             THEN /\ s_retry_num' = s_retry_num + 1
                  /\ last_wifi'.connect
                  /\ event_bits' = event_bits
             ELSE /\ s_retry_num' = MAX_RETRIES
                  /\ ~last_wifi'.connect
                  /\ "FAIL" \in event_bits'
         ]_allVars

\* the disconnect event that found the counter at 10: the failure bit is published
C24_Witness ==
    /\ disc_streak = MAX_RETRIES + 1
    /\ s_retry_num = MAX_RETRIES
    /\ last_wifi = [event |-> "STA_DISCONNECTED", connect |-> FALSE]
    /\ "FAIL" \in event_bits

-----------------------------------------------------------------------------
(* Properties of the GOT_IP branch (SpecGotIp) *)

\* the event task runs operation o of its handler in this step
EventRuns(o) == At("event", o) /\ prog'["event"] = Tail(prog["event"])

AfterOutcome == boot_pc \in {"sntp", "server", "ready", "loop"}

\* C25: the GOT_IP branch resets the retry counter to 0 and records the address on
\* the IP label before it publishes the success bit: when the bit is published the
\* counter is 0 and the label shows the address, so app_main, woken with the
\* connected bit, finds the address on the label; and the disconnect events that
\* follow a GOT_IP are answered by a reconnect each up to the 10th of the streak.
C25_GotIpResetsThenPublishes ==
    /\ [][/\ EventRuns("reset_retry") => s_retry_num' = 0
          /\ EventRuns("set_connected") =>
                /\ s_retry_num = 0 /\ s_retry_num' = 0
                /\ ip_label_text = "IP: 192.168.1.2"
                /\ "CONNECTED" \in event_bits'
         ]_allVars
    /\ []((AfterOutcome /\ "CONNECTED" \in bits) => ip_label_text = "IP: 192.168.1.2")
    /\ []((got_ips > 0 /\ EventIdle /\ last_wifi.event = "STA_DISCONNECTED"
           /\ disc_streak <= MAX_RETRIES) =>
              (last_wifi.connect /\ s_retry_num = disc_streak))

\* a GOT_IP that came after a disconnect, followed by a streak of 10 disconnects, each
\* answered by a reconnect
C25_Witness ==
    /\ got_ips >= 1
    /\ "CONNECTED" \in event_bits
    /\ wifi_events >= MAX_RETRIES + 2
    /\ disc_streak = MAX_RETRIES
    /\ s_retry_num = MAX_RETRIES
    /\ last_wifi = [event |-> "STA_DISCONNECTED", connect |-> TRUE]

-----------------------------------------------------------------------------
(* Properties of the outcome messages (SpecBoot) *)

Outcomes == {"Connected", "Failed", "TimedOut"}

-----------------------------------------------------------------------------
(* Properties of the render lock across waits (SpecLocks) *)

\* C27: no thread holds the render lock across a blocking wait: app_main does not
\* hold it while it is blocked in the connectivity wait nor during the tick delay
\* that ends a pass of the monitoring loop (it is between two calls then), and the
\* thread that waits the settle delay of a start request does not hold it.
C27_NoRenderLockAcrossWaits ==
    /\ boot_pc = "blocked" => lv_owner # "main"
    /\ (boot_pc = "loop" /\ prog["main"] = <<>>) => lv_owner # "main"
    /\ \A t \in Threads : At(t, "delay") => lv_owner # t

-----------------------------------------------------------------------------
(* Properties of the storage phase (SpecBoot) *)

\* C28: the storage phase attempts both mounts, the internal flash first and the SD
\* card second, whatever the first returned: when the flash mount has returned the
\* card mount has not been attempted yet, once the phase is over both have been
\* attempted in that order, and the card mount leaves the result of the flash mount
\* (wl_handle) as it was, as the flash mount left the card handle unset.
C28_BothMountsAttempted ==
    /\ [](boot_pc = "mount_sd" =>
             (Len(mounts) = 1 /\ mounts[1].dev = "flash" /\ ~sdcard
              /\ mounts[1].ok = (wl_handle >= 0)))
    /\ [](boot_pc \notin {"start", "register", "mount_flash", "mount_sd"} =>
             /\ Len(mounts) = 2
             /\ mounts[1].dev = "flash" /\ mounts[1].ok = (wl_handle >= 0)
             /\ mounts[2].dev = "sd" /\ mounts[2].ok = sdcard)
    /\ [][(boot_pc = "mount_sd" /\ boot_pc' # "mount_sd") =>
             (wl_handle' = wl_handle /\ Len(mounts') = 2 /\ mounts'[1] = mounts[1])
         ]_allVars

\* the flash mount succeeded and the card mount was attempted all the same, and failed
C28_Witness ==
    /\ boot_pc = "wifi_init"
    /\ Len(mounts) = 2
    /\ mounts[1] = [dev |-> "flash", ok |-> TRUE]
    /\ mounts[2] = [dev |-> "sd", ok |-> FALSE]
    /\ wl_handle >= 0
    /\ ~sdcard

-----------------------------------------------------------------------------
(* Properties of the SD card health check (SpecMonitor) *)

\* this step is a pass of the monitoring loop
IsTick == ticks' = ticks + 1

\* C29: sdcard_was_present is written only by the health check of the monitoring
\* loop, which runs on the passes whose iteration count is a multiple of 10 and only
\* when the card handle is set; a check logs one line exactly when the liveness it
\* observes differs from the stored flag, and then the flag holds the observed
\* liveness, so the next check logs nothing when it observes the same.
C29_SdFlagOnlyByHealthCheck ==
    [][/\ sdcard_was_present' # sdcard_was_present =>
             (IsTick /\ iteration % SdCheckPeriod = 0 /\ sdcard)
       /\ IsTick =>
             /\ last_tick'.sd_lines \in {0, 1}
             /\ (last_tick'.sd_lines = 1) <=> (sdcard_was_present' # sdcard_was_present)
             /\ (last_tick'.sd_lines = 1) =>
                   LET line == log_buffer'[Len(log_buffer')].text
                   IN  line = IF sdcard_was_present' THEN "#00ff00 [OK] SD Card accessible#"
                              ELSE "#ff8800 [!!] SD Card removed!#"
             /\ iteration' = iteration + 1
      ]_allVars

\* the second check observed the card accessible as the first did: no line
C29_Witness ==
    /\ iteration = SdCheckPeriod + 1
    /\ sdcard
    /\ sdcard_was_present
    /\ last_tick.sd_lines = 0

-----------------------------------------------------------------------------
(* Properties of the in-flight guard (SpecLocks) *)

\* the threads that passed the guard of server_switch_event_cb and have not returned
InSwitchCallback == {t \in Threads : site[t] = "switch" /\ prog[t] # <<>>}

-----------------------------------------------------------------------------
(* Properties of the log bookkeeping and of the shown text                  *)

\* the number of '\n' bytes in log_buffer: the lines of it that are terminated
RECURSIVE NewlineCount(_)
NewlineCount(buf) ==
    IF buf = <<>> THEN 0
    ELSE (IF Head(buf).nl THEN 1 ELSE 0) + NewlineCount(Tail(buf))

\* C31: after every append and every clear log_line_count equals the number of
\* newline-terminated lines stored in log_buffer, also after an append whose line
\* did not fit log_line[MAX_LINE_LENGTH] and was stored without its '\n'.
C31_CountEqualsNewlines ==
    log_line_count = NewlineCount(log_buffer)

\* the thread is inside addLog or clearLog: it has entered the lock_guard block and
\* has not yet returned from lv_textarea_set_text
InLogCall(t) ==
    /\ prog[t] # <<>>
    /\ \/ Head(prog[t]).op \in {"byte_loop", "line_loop", "store", "clear_buf",
                                "mtx_unlock", "push_begin", "push_end", "push_empty"}
       \/ /\ Head(prog[t]).op = "lv_lock"
          /\ Len(prog[t]) > 1
          /\ prog[t][2].op \in {"push_begin", "push_empty"}

\* C32: whenever no append and no clear is in progress, the text shown by the log
\* textarea equals the contents of log_buffer, in every interleaving of the tasks'
\* appends and clears: the empty text pushed by a clear never replaces the text
\* pushed by a later append.
C32_ShownEqualsBuffer ==
    (\A t \in Threads : ~InLogCall(t)) => textarea_text = log_buffer

\* the Clear button was served while the service logged a line: the service's line
\* was appended after the clear and its push is what the textarea shows
C32_Witness ==
    /\ \A t \in Threads : prog[t] = <<>>
    /\ site["render"] = "clear_button"
    /\ site["worker"] = "service_log"
    /\ Len(log_buffer) = 2
    /\ log_buffer[1].text = "#00ff00 [OK] Log cleared#"
    /\ log_buffer[2].text = "150 Opening data connection"
    /\ textarea_text = log_buffer

-----------------------------------------------------------------------------
(* Properties of the completed toggle (SpecToggle) *)

\* the latest request was accepted and the controller is back to Idle: the
\* in-flight flag is clear and the render thread has left the handler
ToggleCompleted ==
    /\ last_toggle.kind = "accepted"
    /\ ~ftp_operation_in_progress
    /\ toggle_pc = "idle"

\* C33: whenever the controller is Idle after an accepted toggle has completed, the
\* status label shows no transitional value (Starting... or Stopping...), also
\* when the toggle was made while the service instance was missing.
C33_CompletedToggleFinalStatus ==
    ToggleCompleted => status_text \notin {"Starting...", "Stopping..."}

\* C34: whenever the controller is Idle after an accepted toggle has completed, the
\* switch is ON only if the service instance existed for that toggle and
\* isEnabled() returned true; a toggle ON with no service instance does not
\* leave the switch ON.
C34_SwitchOnOnlyWhenEnabled ==
    (ToggleCompleted /\ switch_checked) => (last_toggle.server /\ server_enabled)

-----------------------------------------------------------------------------
(* The outcome of the connectivity wait and the late events (SpecBoot) *)

\* xEventGroupWaitBits has returned: app_main holds its result in bits
WaitReturned == boot_pc \in {"outcome", "sntp", "server", "ready", "loop"}

\* C35: the outcome that app_main records when the connectivity wait returns is
\* final.  A GOT_IP event delivered after the wait has returned changes neither
\* the returned bits, nor the outcome logged, nor whether time sync is started,
\* though it writes the IP label and sets the connected bit; after a wait that
\* returned without the connected bit, time sync is never started and the log
\* holds no "WiFi connected" and no "Syncing time..." line.
C35_OutcomeFinal ==
    /\ [][(WaitReturned /\ got_ips' = got_ips + 1) =>
             /\ bits' = bits
             /\ wifi_outcome' = wifi_outcome
             /\ console' = console
             /\ sntp_started' = sntp_started
             /\ boot_pc' = boot_pc
             /\ "CONNECTED" \in event_bits'
             /\ ip_label_text' = "IP: 192.168.1.2"]_allVars
    /\ []((boot_pc \in {"server", "ready", "loop"} /\ "CONNECTED" \notin bits) =>
             /\ ~sntp_started
             /\ wifi_outcome \in {{"Failed"}, {"TimedOut"}}
             /\ \A i \in DOMAIN log_buffer :
                   log_buffer[i].text \notin {OutcomeMsg("Connected").text,
                                              "Syncing time..."})

\* the wait timed out and the boot went on without time sync; the address came
\* afterwards: the label shows it and the connected bit is set
C35_Witness ==
    /\ boot_pc \in {"server", "ready", "loop"}
    /\ wifi_outcome = {"TimedOut"}
    /\ bits = {}
    /\ last_wifi.event = "GOT_IP"
    /\ "CONNECTED" \in event_bits
    /\ ip_label_text = "IP: 192.168.1.2"
    /\ ~sntp_started
    /\ \E i \in DOMAIN log_buffer : log_buffer[i].text = OutcomeMsg("TimedOut").text

-----------------------------------------------------------------------------
(* Deadlock freedom of the two locks (SpecLocks) *)

\* the thread waits for a lock that it cannot take now
Blocked(t) ==
    \/ At(t, "lv_lock") /\ ~LvAvailable(t)
    \/ At(t, "mtx_lock") /\ mtx_owner # "none"

\* the thread is inside a call and its next operation can be run
Runnable(t) == prog[t] # <<>> /\ ~Blocked(t)

\* C36: deadlock freedom.  With the main task, the WiFi event task, the service's
\* log callback and the render thread all taking the render lock and the buffer
\* lock, there is no reachable state in which the threads that are inside a call
\* all wait for a lock: whenever a thread waits, some thread can run, the render
\* lock being re-entrant for its holder.
C36_NoDeadlock ==
    (\E t \in Threads : Blocked(t)) => (\E u \in Threads : Runnable(u))

\* two threads wait for the render lock while its holder, inside addLog, takes it
\* again for the push
C36_Witness ==
    \E t \in Threads :
        /\ lv_owner = t
        /\ lv_depth = 1
        /\ At(t, "lv_lock")
        /\ Cardinality({u \in Threads : Blocked(u)}) = 2

-----------------------------------------------------------------------------
(* Consecutive updates of the state poll (SpecMonitor) *)

\* C37: no two consecutive updates emitted by the monitoring loop are for the same
\* coarse state (the low 8 bits of the state word): a pass that emits an update
\* emits it for a coarse state other than the one of the update emitted last, so a
\* change of the upper bits alone does not emit the update of the state shown.
C37_NoRepeatedCoarseUpdate ==
    (ticks > 0 /\ last_tick.updates > 0) =>
        last_tick.polled % 256 # last_tick.shown_before

-----------------------------------------------------------------------------
(* SpecSettings: the settings view is started, its port field edited, Save  *)
(* and Cancel clicked, and the view stopped, in any order                   *)

\* the ports the view is started with
StartPorts == {21, 2121}

\* the texts the user leaves in the port field: digits only and at most 5 of them
\* (lv_textarea_set_accepted_chars / lv_textarea_set_max_length, lines 101-102)
PortTexts ==
    { <<>>, <<"0">>, <<"1">>, <<"8", "0">>, <<"0", "0", "0", "8", "0">>,
      <<"6", "5", "5", "3", "5">>, <<"6", "5", "5", "3", "6">>,
      <<"9", "9", "9", "9", "9">> }

settingsFrame == <<logVars, loadVars, restVars>>

SettingsCount == settings_calls < MaxSettingsCalls /\ settings_calls' = settings_calls + 1

\* void SettingsView::onStart(parent, username, password, port), lines 48-143
onStart ==
    /\ SettingsCount
    /\ \E port \in StartPorts :
          /\ currentPort' = port
          /\ port_text' = PortString(port)
    /\ usernameInput' = TRUE
    /\ passwordInput' = TRUE
    /\ portInput' = TRUE
    /\ UNCHANGED <<last_handle, settingsFrame>>

\* the user edits the port field
EditPort ==
    /\ SettingsCount
    /\ portInput
    /\ \E text \in PortTexts : port_text' = text
    /\ UNCHANGED <<usernameInput, passwordInput, portInput, currentPort, last_handle,
                   settingsFrame>>

\* a click on Save: handleSave()
SaveClicked ==
    /\ SettingsCount
    /\ currentPort # 0                        \* the view was started once
    /\ \E on_save \in BOOLEAN, on_cancel \in BOOLEAN :
          last_handle' = handleSave(on_save, on_cancel)
    /\ UNCHANGED <<usernameInput, passwordInput, portInput, port_text, currentPort,
                   settingsFrame>>

\* void SettingsView::onStop(), lines 145-149
onStop ==
    /\ SettingsCount
    /\ usernameInput' = FALSE
    /\ passwordInput' = FALSE
    /\ portInput' = FALSE
    /\ UNCHANGED <<port_text, currentPort, last_handle, settingsFrame>>

InitSettings == InitBoot

NextSettings == onStart \/ EditPort \/ SaveClicked \/ onStop

SpecSettings == InitSettings /\ [][NextSettings]_allVars

\* C38: handleSave hands to onSave the port parsed from the text of the port field
\* when it lies in 1..65535 and the current port otherwise (empty text, zero, above
\* 65535), and does not call onCancel then; when one of the three input widgets is
\* missing it calls onCancel (when one is registered) and never onSave.
C38_SavePort ==
    last_handle.kind = "save" =>
        LET h == last_handle
            p == atoi(h.text)
        IN  /\ h.widgets =>
                /\ ~h.cancel_called
                /\ h.save_called <=> h.on_save
                /\ h.save_called =>
                      /\ h.save_port = IF p >= 1 /\ p <= 65535 THEN p ELSE h.current
                      /\ (h.text = <<>>) => h.save_port = h.current
                      /\ (h.text = <<"0">>) => h.save_port = h.current
                      /\ (h.text = <<"6", "5", "5", "3", "6">>) => h.save_port = h.current
                      /\ (h.text = <<"6", "5", "5", "3", "5">>) => h.save_port = 65535
                      /\ (h.text = <<"0", "0", "0", "8", "0">>) => h.save_port = 80
                      /\ (h.text = <<"2", "1", "2", "1">>) => h.save_port = 2121
            /\ ~h.widgets =>
                /\ ~h.save_called
                /\ h.cancel_called <=> h.on_cancel

\* Save clicked with "0" typed in the port field of a view started with port 2121:
\* onSave received the current port
C38_Witness ==
    /\ last_handle.kind = "save"
    /\ last_handle.widgets
    /\ last_handle.text = <<"0">>
    /\ last_handle.save_called
    /\ last_handle.current = 2121
    /\ last_handle.save_port = 2121

=============================================================================
